---------------------------- MODULE Spec2Model ----------------------------
(***************************************************************************)
(* Model of the modifier parser of PathOfBuilding-Python:                  *)
(*   src/pob1/models/parser/modifier_model.py  (ModifierPattern,           *)
(*       ModifierManager, DamageModifier, create_modifier_manager)         *)
(*   src/pob1/constants/flags.py               (KeywordFlag,               *)
(*       match_keyword_flags)                                              *)
(* Texts and patterns are strings; a character is a string of length 1.    *)
(***************************************************************************)
EXTENDS Integers, Sequences, FiniteSets, TLC

(***************************************************************************)
(* Characters.  The universe of characters is printable ASCII (without    *)
(* the grave accent, which a TLA+ string cannot hold), listed in           *)
(* code-point order so that a range such as a-z is the set of characters   *)
(* between its ends.                                                       *)
(***************************************************************************)
Ascii == " !\"#$%&'()*+,-./0123456789:;<=>?@ABCDEFGHIJKLMNOPQRSTUVWXYZ[\\]^_abcdefghijklmnopqrstuvwxyz{|}~"

Ch(s, i) == SubSeq(s, i, i)

AsciiChars == {Ch(Ascii, k) : k \in 1..Len(Ascii)}

Code(c) == CHOOSE k \in 1..Len(Ascii) : Ch(Ascii, k) = c

CharRange(a, b) == {Ch(Ascii, k) : k \in Code(a)..Code(b)}

Digit == CharRange("0", "9")

Letter == CharRange("a", "z") \cup CharRange("A", "Z")

Word == Digit \cup Letter \cup {"_"}

Space == {" "}

(***************************************************************************)
(* str.replace(old, new): every non-overlapping occurrence of old, found   *)
(* scanning from the left, is replaced by new.                             *)
(***************************************************************************)
RECURSIVE ReplaceFrom(_, _, _, _)
ReplaceFrom(s, i, old, new) ==
    LET At(k) == SubSeq(s, i, k - 1) \o new \o ReplaceFrom(s, k + Len(old), old, new)
        Among(found) ==
            IF found = {} THEN SubSeq(s, i, Len(s))
            ELSE At(CHOOSE x \in found : \A y \in found : x <= y)
    IN  Among({k \in i..(Len(s) - Len(old) + 1) : SubSeq(s, k, k + Len(old) - 1) = old})

Replace(s, old, new) == ReplaceFrom(s, 1, old, new)

(***************************************************************************)
(* The Lua-to-Python rewrite of ModifierPattern.validate_pattern: a chain  *)
(* of eight str.replace calls, each applied to the output of the previous. *)
(***************************************************************************)
LuaToPython(v) ==
    Replace(Replace(Replace(Replace(Replace(Replace(Replace(Replace(v,
        "%d", "\\d"),
        "%a", "[a-zA-Z]"),
        "%+", "\\+"),
        "%-", "\\-"),
        "%.", "\\."),
        "%?", "\\?"),
        "%s", "\\s"),
        "%%", "%")

(***************************************************************************)
(* re.compile, for the regular-expression dialect the pattern table and    *)
(* its tests use: literals, . ^ $, the escapes \d \s \w \D \S \W and       *)
(* escaped punctuation, character sets with ranges and negation, capturing *)
(* groups, alternation, and the quantifiers * + ? with their lazy forms.   *)
(* A run of unquantified plain characters forms one "lit" node.            *)
(* The result is [ok |-> FALSE] where re.compile raises re.error, else     *)
(* [ok |-> TRUE, node |-> syntax tree, ng |-> number of groups].           *)
(***************************************************************************)
ParseFail == [ok |-> FALSE]

EscapeSet(c) ==
    CASE c = "d" -> Digit
      [] c = "s" -> Space
      [] c = "w" -> Word
      [] c = "D" -> AsciiChars \ Digit
      [] c = "S" -> AsciiChars \ Space
      [] c = "W" -> AsciiChars \ Word
      [] OTHER   -> {c}

\* An escape is accepted when it is a known class or an escaped non-alphanumeric.
EscapeOk(c) == c \in {"d", "s", "w", "D", "S", "W"} \/ c \notin (Digit \cup Letter)

\* The members of a character set, scanning from position i (after '[' and '^').
RECURSIVE ParseSetItems(_, _, _, _)
ParseSetItems(p, i, first, acc) ==
    IF i > Len(p) THEN ParseFail
    ELSE IF Ch(p, i) = "]" /\ ~first THEN [ok |-> TRUE, chars |-> acc, pos |-> i + 1]
    ELSE IF Ch(p, i) = "\\"
         THEN IF i + 1 > Len(p) \/ ~EscapeOk(Ch(p, i + 1)) THEN ParseFail
              ELSE ParseSetItems(p, i + 2, FALSE, acc \cup EscapeSet(Ch(p, i + 1)))
    ELSE IF i + 2 <= Len(p) /\ Ch(p, i + 1) = "-" /\ Ch(p, i + 2) \notin {"]", "\\"}
         THEN IF Code(Ch(p, i + 2)) < Code(Ch(p, i)) THEN ParseFail
              ELSE ParseSetItems(p, i + 3, FALSE, acc \cup CharRange(Ch(p, i), Ch(p, i + 2)))
    ELSE ParseSetItems(p, i + 1, FALSE, acc \cup {Ch(p, i)})

ParseSet(p, i) ==
    LET Items(neg) ==
            LET Made(r) ==
                    IF ~r.ok THEN ParseFail
                    ELSE [ok |-> TRUE, pos |-> r.pos,
                          node |-> [t |-> "set",
                                    chars |-> IF neg THEN AsciiChars \ r.chars ELSE r.chars]]
            IN  Made(ParseSetItems(p, IF neg THEN i + 1 ELSE i, TRUE, {}))
    IN  Items(i <= Len(p) /\ Ch(p, i) = "^")

\* The quantifier, if any, at position i: [ok, pos, some, min, max, greedy]; max -1 is unbounded.
ParseQuant(p, i) ==
    IF i > Len(p) \/ Ch(p, i) \notin {"*", "+", "?"}
    THEN [ok |-> TRUE, some |-> FALSE, pos |-> i]
    ELSE LET Quant(lazy, nxt) ==
                 IF nxt <= Len(p) /\ Ch(p, nxt) \in {"*", "+", "?"} THEN ParseFail
                 ELSE [ok |-> TRUE, some |-> TRUE, pos |-> nxt,
                       min |-> IF Ch(p, i) = "+" THEN 1 ELSE 0,
                       max |-> IF Ch(p, i) = "?" THEN 1 ELSE -1,
                       greedy |-> ~lazy]
             Lazy(lazy) == Quant(lazy, IF lazy THEN i + 2 ELSE i + 1)
         IN  Lazy(i + 1 <= Len(p) /\ Ch(p, i + 1) = "?")

\* The characters with a meaning of their own outside a character set.
Special == {"\\", ".", "^", "$", "*", "+", "?", "(", ")", "[", "|"}

\* The end of the run of plain characters at i that are not followed by a quantifier;
\* the run is one literal.
PlainEnd(p, i) ==
    LET First(stops) ==
            IF stops = {} THEN Len(p) + 1 ELSE CHOOSE k \in stops : \A j \in stops : k <= j
    IN  First({k \in i..Len(p) :
                 \/ Ch(p, k) \in Special
                 \/ k + 1 <= Len(p) /\ Ch(p, k + 1) \in {"*", "+", "?"}})

RECURSIVE ParseAlt(_, _, _, _)
RECURSIVE ParseSeq(_, _, _, _)
RECURSIVE ParseAtom(_, _, _)

ParseAtom(p, i, g) ==
    LET Group(b) ==
            IF ~b.ok \/ b.pos > Len(p) \/ Ch(p, b.pos) # ")" THEN ParseFail
            ELSE [ok |-> TRUE, pos |-> b.pos + 1, ng |-> b.ng,
                  node |-> [t |-> "grp", idx |-> g + 1, body |-> b.node]]
        Set(s) ==
            IF ~s.ok THEN ParseFail
            ELSE [ok |-> TRUE, pos |-> s.pos, ng |-> g, node |-> s.node]
        c == Ch(p, i)
    IN
    CASE c = "(" ->
            IF i + 1 <= Len(p) /\ Ch(p, i + 1) = "?" THEN ParseFail
            ELSE Group(ParseAlt(p, i + 1, g + 1, <<>>))
      [] c = "[" -> Set(ParseSet(p, i + 1))
      [] c = "\\" ->
            IF i + 1 > Len(p) \/ ~EscapeOk(Ch(p, i + 1)) THEN ParseFail
            ELSE [ok |-> TRUE, pos |-> i + 2, ng |-> g,
                  node |-> IF Ch(p, i + 1) \in Letter
                           THEN [t |-> "set", chars |-> EscapeSet(Ch(p, i + 1))]
                           ELSE [t |-> "lit", s |-> Ch(p, i + 1)]]
      [] c = "." -> [ok |-> TRUE, pos |-> i + 1, ng |-> g, node |-> [t |-> "set", chars |-> AsciiChars]]
      [] c = "^" -> [ok |-> TRUE, pos |-> i + 1, ng |-> g, node |-> [t |-> "bol"]]
      [] c = "$" -> [ok |-> TRUE, pos |-> i + 1, ng |-> g, node |-> [t |-> "eol"]]
      [] c \in {"*", "+", "?"} -> ParseFail
      [] OTHER -> [ok |-> TRUE, pos |-> i + 1, ng |-> g, node |-> [t |-> "lit", s |-> c]]

ParseSeq(p, i, g, acc) ==
    IF i > Len(p) \/ Ch(p, i) \in {")", "|"}
    THEN [ok |-> TRUE, pos |-> i, ng |-> g, node |-> [t |-> "seq", items |-> acc]]
    ELSE LET Quantified(a, q) ==
                 IF ~q.ok THEN ParseFail
                 ELSE IF ~q.some THEN [ok |-> TRUE, pos |-> a.pos, ng |-> a.ng, node |-> a.node]
                 ELSE IF a.node.t \in {"bol", "eol"} THEN ParseFail
                 ELSE [ok |-> TRUE, pos |-> q.pos, ng |-> a.ng,
                       node |-> [t |-> "rep", min |-> q.min, max |-> q.max,
                                 greedy |-> q.greedy, body |-> a.node]]
             Atom(a) == IF ~a.ok THEN ParseFail ELSE Quantified(a, ParseQuant(p, a.pos))
             Item(e) ==
                 IF e > i
                 THEN [ok |-> TRUE, pos |-> e, ng |-> g, node |-> [t |-> "lit", s |-> SubSeq(p, i, e - 1)]]
                 ELSE Atom(ParseAtom(p, i, g))
             Rest(x) == IF ~x.ok THEN ParseFail ELSE ParseSeq(p, x.pos, x.ng, Append(acc, x.node))
         IN  Rest(Item(PlainEnd(p, i)))

ParseAlt(p, i, g, acc) ==
    LET Branch(s) ==
            IF ~s.ok THEN ParseFail
            ELSE IF s.pos <= Len(p) /\ Ch(p, s.pos) = "|"
                 THEN ParseAlt(p, s.pos + 1, s.ng, Append(acc, s.node))
                 ELSE [ok |-> TRUE, pos |-> s.pos, ng |-> s.ng,
                       node |-> IF acc = <<>> THEN s.node
                                ELSE [t |-> "alt", branches |-> Append(acc, s.node)]]
    IN  Branch(ParseSeq(p, i, g, <<>>))

re_compile(p) ==
    LET Whole(r) ==
            IF r.ok /\ r.pos = Len(p) + 1
            THEN [ok |-> TRUE, node |-> r.node, ng |-> r.ng]
            ELSE ParseFail
    IN  Whole(ParseAlt(p, 1, 0, <<>>))

(***************************************************************************)
(* re.match(pattern, text): a backtracking match anchored at the start of  *)
(* the text.  Run(n, ...) is the sequence of outcomes [pos, caps] of node  *)
(* n started at position pos, in the order the backtracking engine tries   *)
(* them (a greedy repeat tries more iterations first); the match is the    *)
(* first outcome of the whole pattern.  caps[k] is <<>> while group k has  *)
(* not participated and <<s>> once it has captured s.                      *)
(***************************************************************************)
RECURSIVE Run(_, _, _, _)
RECURSIVE RunSeq(_, _, _, _, _)
RECURSIVE RunSeqEach(_, _, _, _, _, _)
RECURSIVE RunAlt(_, _, _, _, _)
RECURSIVE RunRep(_, _, _, _, _)
RECURSIVE RunRepEach(_, _, _, _, _, _, _)

\* Each outcome of a group's body closes the group: it captures text[from .. pos-1].
CloseGroup(idx, text, from, outs) ==
    [j \in 1..Len(outs) |->
        [pos  |-> outs[j].pos,
         caps |-> [outs[j].caps EXCEPT ![idx] = <<SubSeq(text, from, outs[j].pos - 1)>>]]]

\* A node that matches exactly one character, and the characters it accepts.
OneChar(b) == b.t = "set" \/ (b.t = "lit" /\ Len(b.s) = 1)

Accepts(b, c) == IF b.t = "set" THEN c \in b.chars ELSE c = b.s

\* A repeat of a one-character node: the run of accepted characters at pos has avail
\* characters, and the outcomes are the admissible counts, largest first when greedy.
RunRepChar(n, text, pos, caps) ==
    LET Counts(hi) ==
            IF hi < n.min THEN <<>>
            ELSE [i \in 1..(hi - n.min + 1) |->
                    [pos  |-> IF n.greedy THEN pos + hi - (i - 1) ELSE pos + n.min + (i - 1),
                     caps |-> caps]]
        Avail(avail) == Counts(IF n.max = -1 \/ avail < n.max THEN avail ELSE n.max)
        Stops(stops) ==
            Avail((IF stops = {} THEN Len(text) + 1
                   ELSE CHOOSE k \in stops : \A j \in stops : k <= j) - pos)
    IN  Stops({k \in pos..Len(text) : ~Accepts(n.body, Ch(text, k))})

Run(n, text, pos, caps) ==
    CASE n.t = "lit" ->
            IF pos + Len(n.s) - 1 <= Len(text) /\ SubSeq(text, pos, pos + Len(n.s) - 1) = n.s
            THEN <<[pos |-> pos + Len(n.s), caps |-> caps]>> ELSE <<>>
      [] n.t = "set" ->
            IF pos <= Len(text) /\ Ch(text, pos) \in n.chars
            THEN <<[pos |-> pos + 1, caps |-> caps]>> ELSE <<>>
      [] n.t = "bol" -> IF pos = 1 THEN <<[pos |-> pos, caps |-> caps]>> ELSE <<>>
      [] n.t = "eol" -> IF pos = Len(text) + 1 THEN <<[pos |-> pos, caps |-> caps]>> ELSE <<>>
      [] n.t = "grp" -> CloseGroup(n.idx, text, pos, Run(n.body, text, pos, caps))
      [] n.t = "seq" -> RunSeq(n.items, 1, text, pos, caps)
      [] n.t = "alt" -> RunAlt(n.branches, 1, text, pos, caps)
      [] n.t = "rep" -> IF OneChar(n.body) THEN RunRepChar(n, text, pos, caps)
                        ELSE RunRep(n, 0, text, pos, caps)

\* items[k..] in sequence: every outcome of items[k] is continued by items[k+1..].
RunSeq(items, k, text, pos, caps) ==
    IF k > Len(items) THEN <<[pos |-> pos, caps |-> caps]>>
    ELSE LET Each(outs) ==
                 IF outs = <<>> THEN <<>> ELSE RunSeqEach(items, k, text, outs, 1, Len(outs))
         IN  Each(Run(items[k], text, pos, caps))

\* The continuations of outs[lo..hi], in order.
RunSeqEach(items, k, text, outs, lo, hi) ==
    IF lo = hi THEN RunSeq(items, k + 1, text, outs[lo].pos, outs[lo].caps)
    ELSE LET mid == (lo + hi) \div 2
         IN  RunSeqEach(items, k, text, outs, lo, mid) \o RunSeqEach(items, k, text, outs, mid + 1, hi)

\* Alternation: the branches are tried from the left.
RunAlt(branches, k, text, pos, caps) ==
    IF k > Len(branches) THEN <<>>
    ELSE Run(branches[k], text, pos, caps) \o RunAlt(branches, k + 1, text, pos, caps)

\* A repeat that has done count iterations: one more iteration, or stop; greedy tries more first.
RunRep(n, count, text, pos, caps) ==
    LET Order(more, stop) == IF n.greedy THEN more \o stop ELSE stop \o more
        More(outs) ==
            Order(IF outs = <<>> THEN <<>> ELSE RunRepEach(n, count, text, pos, outs, 1, Len(outs)),
                  IF count >= n.min THEN <<[pos |-> pos, caps |-> caps]>> ELSE <<>>)
    IN  More(IF n.max = -1 \/ count < n.max THEN Run(n.body, text, pos, caps) ELSE <<>>)

\* The repeat continued after each of outs[lo..hi]; an iteration that consumed nothing ends it.
RunRepEach(n, count, text, pos, outs, lo, hi) ==
    IF lo = hi
    THEN IF outs[lo].pos > pos THEN RunRep(n, count + 1, text, outs[lo].pos, outs[lo].caps)
         ELSE <<outs[lo]>>
    ELSE LET mid == (lo + hi) \div 2
         IN  RunRepEach(n, count, text, pos, outs, lo, mid)
             \o RunRepEach(n, count, text, pos, outs, mid + 1, hi)

(***************************************************************************)
(* float(x) for a capture x.  A float is the exact decimal it denotes,     *)
(* [num |-> n, den |-> 10^k] with no trailing zero digit, so that equal    *)
(* numbers are equal records (4.0 = 4).  The result is [ok |-> TRUE,       *)
(* val |-> f], or [ok |-> FALSE, exc |-> e]: float(None) raises TypeError, *)
(* and a string that is not an optionally signed decimal numeral with at   *)
(* least one digit and at most one point raises ValueError.                *)
(***************************************************************************)
RECURSIVE StripLeft(_)
StripLeft(s) == IF Len(s) > 0 /\ Ch(s, 1) \in Space THEN StripLeft(SubSeq(s, 2, Len(s))) ELSE s

RECURSIVE StripRight(_)
StripRight(s) ==
    IF Len(s) > 0 /\ Ch(s, Len(s)) \in Space THEN StripRight(SubSeq(s, 1, Len(s) - 1)) ELSE s

\* The value of the digits of s read as one numeral (any point skipped).
RECURSIVE DigitsValue(_, _)
DigitsValue(s, acc) ==
    IF s = "" THEN acc
    ELSE IF Ch(s, 1) = "." THEN DigitsValue(SubSeq(s, 2, Len(s)), acc)
    ELSE DigitsValue(SubSeq(s, 2, Len(s)), 10 * acc + (Code(Ch(s, 1)) - Code("0")))

RECURSIVE Normalize(_)
Normalize(f) ==
    IF f.den > 1 /\ f.num % 10 = 0 THEN Normalize([num |-> f.num \div 10, den |-> f.den \div 10])
    ELSE f

RECURSIVE Pow10(_)
Pow10(k) == IF k = 0 THEN 1 ELSE 10 * Pow10(k - 1)

FloatOfInt(n) == [num |-> n, den |-> 1]

FloatLeq(a, b) == a.num * b.den <= b.num * a.den

PyFloat(x) ==
    IF x = <<>> THEN [ok |-> FALSE, exc |-> "TypeError"]
    ELSE LET Value(negative, mag, scale) ==
                 Normalize([num |-> IF negative THEN 0 - mag ELSE mag, den |-> Pow10(scale)])
             Numeral(negative, body, points, digits) ==
                 IF digits = {} \/ Cardinality(points) > 1
                    \/ Cardinality(digits) + Cardinality(points) # Len(body)
                 THEN [ok |-> FALSE, exc |-> "ValueError"]
                 ELSE [ok |-> TRUE,
                       val |-> Value(negative, DigitsValue(body, 0),
                                     IF points = {} THEN 0
                                     ELSE Len(body) - (CHOOSE k \in points : TRUE))]
             Body(negative, body) ==
                 Numeral(negative, body, {k \in 1..Len(body) : Ch(body, k) = "."},
                         {k \in 1..Len(body) : Ch(body, k) \in Digit})
             Signed(s, signed) ==
                 Body(signed /\ Ch(s, 1) = "-", IF signed THEN SubSeq(s, 2, Len(s)) ELSE s)
             Stripped(s) == Signed(s, Len(s) > 0 /\ Ch(s, 1) \in {"+", "-"})
         IN  Stripped(StripRight(StripLeft(x[1])))

(***************************************************************************)
(* ModifierForm: the members of the enumeration, by name.                  *)
(***************************************************************************)
ModifierForm ==
    {"BASE", "INCREASE", "REDUCE", "MORE", "LESS", "GAIN", "LOSE", "GRANTS", "REMOVES",
     "CHANCE", "FLAG", "TOTAL_COST", "BASE_COST", "PENETRATION", "DAMAGE", "DAMAGE_ATTACKS",
     "DAMAGE_SPELLS", "DAMAGE_BOTH", "REGEN_FLAT", "REGEN_PERCENT", "DEGEN_FLAT",
     "DEGEN_PERCENT", "DEGEN", "OVERRIDE"}

(***************************************************************************)
(* ModifierPattern(pattern=v, form=f).  validate_pattern rewrites the      *)
(* pattern and compiles the rewritten text; a compile failure raises       *)
(* ValueError, otherwise the rewritten text is what the object stores.     *)
(* The message of the ValueError is the fixed text followed by the text of *)
(* the re.error, which is left out.                                        *)
(***************************************************************************)
validate_pattern(v) ==
    LET Compiled(pattern) ==
            IF re_compile(pattern).ok THEN [ok |-> TRUE, val |-> pattern]
            ELSE [ok |-> FALSE, exc |-> "ValueError", msg |-> "Invalid regular expression pattern: "]
    IN  Compiled(LuaToPython(v))

ModifierPattern(v, f) ==
    LET Validated(r) ==
            IF r.ok THEN [ok |-> TRUE, val |-> [pattern |-> r.val, form |-> f]]
            ELSE r
    IN  Validated(validate_pattern(v))

(***************************************************************************)
(* create_modifier_manager: the entries of the patterns dict, in the order *)
(* written (a dict iterates in insertion order; no key occurs twice), each *)
(* passed to add_pattern.                                                  *)
(***************************************************************************)
ShippedPatterns == <<
    <<"^(\\d+)% increased", "INCREASE">>,
    <<"^(\\d+)% faster", "INCREASE">>,
    <<"^(\\d+)% reduced", "REDUCE">>,
    <<"^(\\d+)% slower", "REDUCE">>,
    <<"^(\\d+)% more", "MORE">>,
    <<"^(\\d+)% less", "LESS">>,
    <<"^([\\+\\-][\\d\\.]+)%?", "BASE">>,
    <<"^([\\+\\-][\\d\\.]+)%? to", "BASE">>,
    <<"^([\\+\\-]?[\\d\\.]+)%? of", "BASE">>,
    <<"^([\\+\\-][\\d\\.]+)%? base", "BASE">>,
    <<"^([\\+\\-]?[\\d\\.]+)%? additional", "BASE">>,
    <<"(\\d+) additional hits?", "BASE">>,
    <<"^throw up to (\\d+)", "BASE">>,
    <<"^you gain ([\\d\\.]+)", "GAIN">>,
    <<"^gains? ([\\d\\.]+)%? of", "GAIN">>,
    <<"^gain ([\\d\\.]+)", "GAIN">>,
    <<"^gain \\+(\\d+)% to", "GAIN">>,
    <<"^you lose ([\\d\\.]+)", "LOSE">>,
    <<"^loses? ([\\d\\.]+)% of", "LOSE">>,
    <<"^lose ([\\d\\.]+)", "LOSE">>,
    <<"^lose \\+(\\d+)% to", "LOSE">>,
    <<"^grants ([\\d\\.]+)", "GRANTS">>,
    <<"^removes? ([\\d\\.]+) ?o?f? ?y?o?u?r?", "REMOVES">>,
    <<"^(\\d+)", "BASE">>,
    <<"^([\\+\\-]?\\d+)% chance", "CHANCE">>,
    <<"^([\\+\\-]?\\d+)% chance to gain ", "FLAG">>,
    <<"^([\\+\\-]?\\d+)% additional chance", "CHANCE">>,
    <<"costs? ([\\+\\-]?\\d+)", "TOTAL_COST">>,
    <<"skills cost ([\\+\\-]?\\d+)", "BASE_COST">>,
    <<"penetrates? (\\d+)%", "PENETRATION">>,
    <<"penetrates (\\d+)% of", "PENETRATION">>,
    <<"penetrates (\\d+)% of enemy", "PENETRATION">>,
    <<"^([\\d\\.]+) (.+) regenerated per second", "REGEN_FLAT">>,
    <<"^([\\d\\.]+)% (.+) regenerated per second", "REGEN_PERCENT">>,
    <<"^([\\d\\.]+)% of (.+) regenerated per second", "REGEN_PERCENT">>,
    <<"^regenerate ([\\d\\.]+) (.-) per second", "REGEN_FLAT">>,
    <<"^regenerate ([\\d\\.]+)% (.-) per second", "REGEN_PERCENT">>,
    <<"^regenerate ([\\d\\.]+)% of (.-) per second", "REGEN_PERCENT">>,
    <<"^regenerate ([\\d\\.]+)% of your (.-) per second", "REGEN_PERCENT">>,
    <<"^you regenerate ([\\d\\.]+)% of (.-) per second", "REGEN_PERCENT">>,
    <<"^([\\d\\.]+) (.+) lost per second", "DEGEN_FLAT">>,
    <<"^([\\d\\.]+)% (.+) lost per second", "DEGEN_PERCENT">>,
    <<"^([\\d\\.]+)% of (.+) lost per second", "DEGEN_PERCENT">>,
    <<"^lose ([\\d\\.]+) (.-) per second", "DEGEN_FLAT">>,
    <<"^lose ([\\d\\.]+)% (.-) per second", "DEGEN_PERCENT">>,
    <<"^lose ([\\d\\.]+)% of (.-) per second", "DEGEN_PERCENT">>,
    <<"^lose ([\\d\\.]+)% of your (.-) per second", "DEGEN_PERCENT">>,
    <<"^you lose ([\\d\\.]+)% of (.-) per second", "DEGEN_PERCENT">>,
    <<"^([\\d\\.]+) ([a-zA-Z]+) damage taken per second", "DEGEN">>,
    <<"^([\\d\\.]+) ([a-zA-Z]+) damage per second", "DEGEN">>,
    <<"(\\d+) to (\\d+) added ([a-zA-Z]+) damage", "DAMAGE">>,
    <<"(\\d+)-(\\d+) added ([a-zA-Z]+) damage", "DAMAGE">>,
    <<"(\\d+) to (\\d+) additional ([a-zA-Z]+) damage", "DAMAGE">>,
    <<"(\\d+)-(\\d+) additional ([a-zA-Z]+) damage", "DAMAGE">>,
    <<"^(\\d+) to (\\d+) ([a-zA-Z]+) damage", "DAMAGE">>,
    <<"adds (\\d+) to (\\d+) ([a-zA-Z]+) damage", "DAMAGE">>,
    <<"adds (\\d+)-(\\d+) ([a-zA-Z]+) damage", "DAMAGE">>,
    <<"adds (\\d+) to (\\d+) ([a-zA-Z]+) damage to attacks", "DAMAGE_ATTACKS">>,
    <<"adds (\\d+)-(\\d+) ([a-zA-Z]+) damage to attacks", "DAMAGE_ATTACKS">>,
    <<"adds (\\d+) to (\\d+) ([a-zA-Z]+) attack damage", "DAMAGE_ATTACKS">>,
    <<"adds (\\d+)-(\\d+) ([a-zA-Z]+) attack damage", "DAMAGE_ATTACKS">>,
    <<"(\\d+) to (\\d+) added attack ([a-zA-Z]+) damage", "DAMAGE_ATTACKS">>,
    <<"adds (\\d+) to (\\d+) ([a-zA-Z]+) damage to spells", "DAMAGE_SPELLS">>,
    <<"adds (\\d+)-(\\d+) ([a-zA-Z]+) damage to spells", "DAMAGE_SPELLS">>,
    <<"adds (\\d+) to (\\d+) ([a-zA-Z]+) spell damage", "DAMAGE_SPELLS">>,
    <<"adds (\\d+)-(\\d+) ([a-zA-Z]+) spell damage", "DAMAGE_SPELLS">>,
    <<"(\\d+) to (\\d+) added spell ([a-zA-Z]+) damage", "DAMAGE_SPELLS">>,
    <<"adds (\\d+) to (\\d+) ([a-zA-Z]+) damage to attacks and spells", "DAMAGE_BOTH">>,
    <<"adds (\\d+)-(\\d+) ([a-zA-Z]+) damage to attacks and spells", "DAMAGE_BOTH">>,
    <<"adds (\\d+) to (\\d+) ([a-zA-Z]+) damage to spells and attacks", "DAMAGE_BOTH">>,
    <<"adds (\\d+)-(\\d+) ([a-zA-Z]+) damage to spells and attacks", "DAMAGE_BOTH">>,
    <<"adds (\\d+) to (\\d+) ([a-zA-Z]+) damage to hits", "DAMAGE_BOTH">>,
    <<"adds (\\d+)-(\\d+) ([a-zA-Z]+) damage to hits", "DAMAGE_BOTH">>,
    <<"^you have ", "FLAG">>,
    <<"^have ", "FLAG">>,
    <<"^you are ", "FLAG">>,
    <<"^are ", "FLAG">>,
    <<"^gain ", "FLAG">>,
    <<"^you gain ", "FLAG">>,
    <<"is (-?\\d+)%? ", "OVERRIDE">>
>>

(***************************************************************************)
(* The pattern texts that direct add_pattern calls register.               *)
(***************************************************************************)
\* Arguments of add_pattern: patterns that overlap, a pattern with no group, a damage-form
\* pattern with one group, a pattern whose group is optional, and a pattern that does not compile.
PatternPool ==
    {<<"^(\\d+)% increased", "INCREASE">>,
     <<"^(\\d+)", "BASE">>,
     <<"^you have ", "FLAG">>,
     <<"^you have (\\d+)", "BASE">>,
     <<"^(\\d+) to", "DAMAGE">>,
     <<"^x(\\d)?", "BASE">>,
     <<"^[unmatched", "BASE">>}

(***************************************************************************)
(* re.match compiles its pattern argument through the cache of the re      *)
(* module, so a pattern text is compiled once however often it is matched. *)
(***************************************************************************)
CachedPatterns ==
    {LuaToPython(ShippedPatterns[k][1]) : k \in 1..Len(ShippedPatterns)}
    \cup {LuaToPython(e[1]) : e \in PatternPool}

re_cache == [p \in CachedPatterns |-> re_compile(p)]

re_compile_cached(p) == IF p \in CachedPatterns THEN re_cache[p] ELSE re_compile(p)

\* re.match: [matched |-> FALSE], or [matched |-> TRUE, groups |-> match.groups()].
re_match(pattern, text) ==
    LET First(outs) ==
            IF outs = <<>> THEN [matched |-> FALSE]
            ELSE [matched |-> TRUE, groups |-> outs[1].caps]
        Matched(c) == First(Run(c.node, text, 1, [k \in 1..c.ng |-> <<>>]))
    IN  Matched(re_compile_cached(pattern))

\* ModifierPattern.match: [some |-> FALSE] for None, else the list of captured groups.
match(self, text) ==
    LET Groups(m) == IF m.matched THEN [some |-> TRUE, list |-> m.groups] ELSE [some |-> FALSE]
    IN  Groups(re_match(self.pattern, text))

(***************************************************************************)
(* The modifier classes.  DamageModifier and RegenerationModifier declare  *)
(* their string fields as required, so None there is a validation error;   *)
(* no class declares a validator on its numeric fields.                    *)
(***************************************************************************)
NumericModifier(text, form, value) ==
    [ok |-> TRUE, val |-> [kind |-> "NumericModifier", text |-> text, form |-> form, value |-> value]]

DamageModifier(text, form, min_damage, max_damage, damage_type) ==
    IF damage_type = <<>> THEN [ok |-> FALSE, exc |-> "ValidationError"]
    ELSE [ok |-> TRUE,
          val |-> [kind |-> "DamageModifier", text |-> text, form |-> form,
                   min_damage |-> min_damage, max_damage |-> max_damage,
                   damage_type |-> damage_type[1]]]

RegenerationModifier(text, form, value, resource) ==
    IF resource = <<>> THEN [ok |-> FALSE, exc |-> "ValidationError"]
    ELSE [ok |-> TRUE,
          val |-> [kind |-> "RegenerationModifier", text |-> text, form |-> form,
                   value |-> value, resource |-> resource[1]]]

DamageForms == {"DAMAGE", "DAMAGE_ATTACKS", "DAMAGE_SPELLS", "DAMAGE_BOTH"}

RegenForms == {"REGEN_FLAT", "REGEN_PERCENT", "DEGEN_FLAT", "DEGEN_PERCENT"}

(***************************************************************************)
(* ModifierManager.parse_modifier.  The outcome is [kind |-> "None"], a    *)
(* modifier object, or [kind |-> "Raised", exc |-> e] when the call ends   *)
(* in an exception.  The loop takes a pattern only when its match() value  *)
(* is truthy: None and the empty list of groups are both falsy.            *)
(***************************************************************************)
Raised(e) == [kind |-> "Raised", exc |-> e]

Truthy(m) == m.some /\ m.list # <<>>

BuildModifier_numeric(form, text, matches) ==
    LET Numeric(v) ==
            IF ~v.ok THEN Raised(v.exc)
            ELSE [kind |-> "NumericModifier", text |-> text, form |-> form, value |-> v.val]
    IN  Numeric(PyFloat(matches[1]))

\* The body of the loop for a pattern whose match value is matches.
BuildModifier(form, text, matches) ==
    LET Built(m) == IF m.ok THEN m.val ELSE Raised(m.exc)
        Damage(lo, hi) ==
            IF ~lo.ok THEN Raised(lo.exc)
            ELSE IF Len(matches) < 2 THEN Raised("IndexError")
            ELSE IF ~hi.ok THEN Raised(hi.exc)
            ELSE IF Len(matches) < 3 THEN Raised("IndexError")
            ELSE Built(DamageModifier(text, form, lo.val, hi.val, matches[3]))
        Regen(v) ==
            IF ~v.ok THEN Raised(v.exc)
            ELSE IF Len(matches) < 2 THEN Raised("IndexError")
            ELSE Built(RegenerationModifier(text, form, v.val, matches[2]))
        Numeric(v) ==
            IF ~v.ok THEN Raised(v.exc) ELSE Built(NumericModifier(text, form, v.val))
        First(m) == PyFloat(m[1])
    IN  IF form \in DamageForms THEN Damage(First(matches), PyFloat(matches[2]))
        ELSE IF form \in RegenForms THEN Regen(First(matches))
        ELSE Numeric(IF matches # <<>> THEN First(matches)
                     ELSE [ok |-> TRUE, val |-> FloatOfInt(0)])

FirstTruthy_last(patterns, text) ==
    LET Last(hits) == IF hits = {} THEN 0 ELSE CHOOSE k \in hits : \A j \in hits : k >= j
    IN  Last({k \in 1..Len(patterns) : Truthy(match(patterns[k], text))})

\* The position of the first pattern whose match value is truthy, 0 when there is none.
FirstTruthy(patterns, text) ==
    LET First(hits) == IF hits = {} THEN 0 ELSE CHOOSE k \in hits : \A j \in hits : k <= j
    IN  First({k \in 1..Len(patterns) : Truthy(match(patterns[k], text))})

ParseFrom(patterns, k, text) ==
    IF k = 0 THEN [kind |-> "None"]
    ELSE BuildModifier(patterns[k].form, text, match(patterns[k], text).list)

parse_modifier(patterns, text) == ParseFrom(patterns, FirstTruthy(patterns, text), text)

\* One pass of the loop of parse_modifier for a call c = [pc, text, k] that is about to
\* take the k-th pattern: the loop is over (return None), the pattern's match value is
\* truthy (return the modifier, or raise), or the loop goes on to the next pattern.
LoopStep_skipping(patterns, c) ==
    IF c.k > Len(patterns) THEN [pc |-> "done", text |-> c.text, ret |-> [kind |-> "None"]]
    ELSE LET Taken(matches) ==
                 IF Truthy(matches)
                 THEN [pc |-> "done", text |-> c.text,
                       ret |-> BuildModifier(patterns[c.k].form, c.text, matches.list)]
                 ELSE [pc |-> "loop", text |-> c.text, k |-> c.k + 2]
         IN  Taken(match(patterns[c.k], c.text))

LoopStep(patterns, c) ==
    IF c.k > Len(patterns) THEN [pc |-> "done", text |-> c.text, ret |-> [kind |-> "None"]]
    ELSE LET Taken(matches) ==
                 IF Truthy(matches)
                 THEN [pc |-> "done", text |-> c.text,
                       ret |-> BuildModifier(patterns[c.k].form, c.text, matches.list)]
                 ELSE [pc |-> "loop", text |-> c.text, k |-> c.k + 1]
         IN  Taken(match(patterns[c.k], c.text))

AppendPattern_unvalidated(patterns, v, f) ==
    [ok |-> TRUE, val |-> Append(patterns, [pattern |-> LuaToPython(v), form |-> f])]

\* add_pattern on a pattern list: the list with the new ModifierPattern appended, or the exception.
AppendPattern(patterns, v, f) ==
    LET Added(mp) ==
            IF mp.ok THEN [ok |-> TRUE, val |-> Append(patterns, mp.val)]
            ELSE mp
    IN  Added(ModifierPattern(v, f))

\* The ModifierPattern objects of the entries, each [ok, val] or [ok, exc].
ShippedObjects ==
    [k \in 1..Len(ShippedPatterns) |-> ModifierPattern(ShippedPatterns[k][1], ShippedPatterns[k][2])]

create_modifier_manager_skipping ==
    [ok |-> TRUE,
     val |-> [k \in 1..(Len(ShippedObjects) - 1) |-> ShippedObjects[k + 1].val]]

\* The loop over the entries: an entry whose add_pattern raises ends the loop with its exception.
create_modifier_manager ==
    LET Loop(objects, bad) ==
            IF bad # {}
            THEN [ok |-> FALSE, exc |-> objects[CHOOSE k \in bad : \A j \in bad : k <= j].exc]
            ELSE [ok |-> TRUE, val |-> [k \in 1..Len(objects) |-> objects[k].val]]
        Objects(objects) == Loop(objects, {k \in 1..Len(objects) : ~objects[k].ok})
    IN  Objects(ShippedObjects)

(***************************************************************************)
(* KeywordFlag and match_keyword_flags (constants/flags.py).  A flag set   *)
(* is the integer whose binary digits are its flags.                       *)
(***************************************************************************)
KeywordFlag ==
    [PHYSICAL |-> 16,
     FIRE |-> 32,
     COLD |-> 64,
     LIGHTNING |-> 128,
     CHAOS |-> 256,
     AURA |-> 1,
     CURSE |-> 2,
     TRAP |-> 4096,
     AILMENT |-> 524288,
     PHYSICAL_DOT |-> 16777216,
     LIGHTNING_DOT |-> 33554432,
     COLD_DOT |-> 67108864,
     FIRE_DOT |-> 134217728,
     CHAOS_DOT |-> 268435456,
     MATCH_ALL |-> 1073741824]

\* The binary digits of a non-negative integer below 2^31 that are 1, as the set of their values.
BitsOf(a) == {2^k : k \in {j \in 0..30 : (a \div 2^j) % 2 = 1}}

RECURSIVE SetSum(_)
SetSum(S) == IF S = {} THEN 0 ELSE LET x == CHOOSE y \in S : TRUE IN x + SetSum(S \ {x})

\* a & b on non-negative integers, binary digit by binary digit from the lowest; where the
\* low 16 (or 8) digits of either operand are all 0, so are those of the result.
RECURSIVE BitAnd(_, _)
BitAnd(a, b) ==
    IF a = 0 \/ b = 0 THEN 0
    ELSE IF a % 65536 = 0 \/ b % 65536 = 0 THEN 65536 * BitAnd(a \div 65536, b \div 65536)
    ELSE IF a % 256 = 0 \/ b % 256 = 0 THEN 256 * BitAnd(a \div 256, b \div 256)
    ELSE (a % 2) * (b % 2) + 2 * BitAnd(a \div 2, b \div 2)

\* a & ~b on non-negative integers.
BitClear(a, b) == a - BitAnd(a, b)

match_keyword_flags_no_wildcard(keyword_flags, mod_keyword_flags) ==
    LET Matched(match_all, required, have) ==
            [ok |-> TRUE,
             val |-> IF match_all THEN BitAnd(have, required) = required
                     ELSE BitAnd(have, required) # 0]
    IN  Matched(BitAnd(mod_keyword_flags, KeywordFlag.MATCH_ALL) # 0,
                BitClear(mod_keyword_flags, KeywordFlag.MATCH_ALL),
                BitClear(keyword_flags, KeywordFlag.MATCH_ALL))

match_keyword_flags_any_only(keyword_flags, mod_keyword_flags) ==
    LET Matched(required, have) ==
            [ok |-> TRUE, val |-> required = 0 \/ BitAnd(have, required) # 0]
    IN  Matched(BitClear(mod_keyword_flags, KeywordFlag.MATCH_ALL),
                BitClear(keyword_flags, KeywordFlag.MATCH_ALL))

\* [ok |-> TRUE, val |-> the boolean returned], or the AssertionError of a failed assert.
match_keyword_flags(keyword_flags, mod_keyword_flags) ==
    LET Matched(match_all, required, have) ==
            IF BitAnd(have, KeywordFlag.MATCH_ALL) # 0 \/ BitAnd(required, KeywordFlag.MATCH_ALL) # 0
            THEN [ok |-> FALSE, exc |-> "AssertionError"]
            ELSE [ok |-> TRUE,
                  val |-> IF match_all THEN BitAnd(have, required) = required
                          ELSE required = 0 \/ BitAnd(have, required) # 0]
    IN  Matched(BitAnd(mod_keyword_flags, KeywordFlag.MATCH_ALL) # 0,
                BitClear(mod_keyword_flags, KeywordFlag.MATCH_ALL),
                BitClear(keyword_flags, KeywordFlag.MATCH_ALL))

(***************************************************************************)
(* ModFlag and ModFlag.verify_weapon_flags (constants/flags.py).  An       *)
(* assert whose condition is false ends the call with AssertionError and   *)
(* the assert's message; `flags & X` is true when it is not 0.             *)
(***************************************************************************)
ModFlag ==
    [ATTACK |-> 1,
     SPELL |-> 2,
     HIT |-> 4,
     DOT |-> 8,
     CAST |-> 16,
     PROJECTILE |-> 1024,
     WEAPON |-> 8192,
     AXE |-> 65536,
     BOW |-> 131072,
     CLAW |-> 262144,
     DAGGER |-> 524288,
     MACE |-> 1048576,
     STAFF |-> 2097152,
     SWORD |-> 4194304,
     WAND |-> 8388608,
     UNARMED |-> 16777216,
     FISHING |-> 33554432,
     WEAPON_MELEE |-> 67108864,
     WEAPON_RANGED |-> 134217728,
     WEAPON_1H |-> 268435456,
     WEAPON_2H |-> 536870912,
     WEAPON_MASK |-> 805240832]

\* a | b for flag sets that share no flag.
weapon_type_flags ==
    ModFlag.AXE + ModFlag.BOW + ModFlag.CLAW + ModFlag.DAGGER + ModFlag.MACE + ModFlag.STAFF + ModFlag.SWORD + ModFlag.WAND
    + ModFlag.UNARMED + ModFlag.FISHING

weapon_class_flags == ModFlag.WEAPON_MELEE + ModFlag.WEAPON_RANGED + ModFlag.WEAPON_1H + ModFlag.WEAPON_2H

AssertionError(msg) == [ok |-> FALSE, exc |-> "AssertionError", msg |-> msg]

verify_weapon_flags_no_hands(flags) ==
    IF BitAnd(flags, ModFlag.WEAPON_MELEE) # 0 /\ BitAnd(flags, ModFlag.WEAPON_RANGED) # 0
    THEN AssertionError("Weapon cannot be both melee and ranged")
    ELSE IF BitAnd(flags, weapon_type_flags) # 0 /\ BitAnd(flags, ModFlag.WEAPON) = 0
    THEN AssertionError("WEAPON flag must be set when weapon type is specified")
    ELSE IF BitAnd(flags, weapon_class_flags) # 0 /\ BitAnd(flags, weapon_type_flags) = 0
    THEN AssertionError("Weapon type must be specified with weapon class")
    ELSE [ok |-> TRUE, val |-> TRUE]

\* [ok |-> TRUE, val |-> TRUE], or the AssertionError of the first assert that fails.
verify_weapon_flags(flags) ==
    IF BitAnd(flags, ModFlag.WEAPON_MELEE) # 0 /\ BitAnd(flags, ModFlag.WEAPON_RANGED) # 0
    THEN AssertionError("Weapon cannot be both melee and ranged")
    ELSE IF BitAnd(flags, ModFlag.WEAPON_1H) # 0 /\ BitAnd(flags, ModFlag.WEAPON_2H) # 0
    THEN AssertionError("Weapon cannot be both one-handed and two-handed")
    ELSE IF BitAnd(flags, weapon_type_flags) # 0 /\ BitAnd(flags, ModFlag.WEAPON) = 0
    THEN AssertionError("WEAPON flag must be set when weapon type is specified")
    ELSE IF BitAnd(flags, weapon_class_flags) # 0 /\ BitAnd(flags, weapon_type_flags) = 0
    THEN AssertionError("Weapon type must be specified with weapon class")
    ELSE [ok |-> TRUE, val |-> TRUE]

(***************************************************************************)
(* KeywordFlag.verify_damage_types (constants/flags.py): the asserts in    *)
(* the order written; the first one that fails ends the call.              *)
(***************************************************************************)
element_flags == KeywordFlag.FIRE + KeywordFlag.COLD + KeywordFlag.LIGHTNING + KeywordFlag.CHAOS + KeywordFlag.PHYSICAL

verify_damage_types_no_cold(flags) ==
    IF BitAnd(flags, KeywordFlag.PHYSICAL_DOT) # 0 /\ BitAnd(flags, KeywordFlag.PHYSICAL) = 0
    THEN AssertionError("Physical base type required for physical DOT")
    ELSE IF BitAnd(flags, KeywordFlag.FIRE_DOT) # 0 /\ BitAnd(flags, KeywordFlag.FIRE) = 0
    THEN AssertionError("Fire base type required for fire DOT")
    ELSE IF BitAnd(flags, KeywordFlag.LIGHTNING_DOT) # 0 /\ BitAnd(flags, KeywordFlag.LIGHTNING) = 0
    THEN AssertionError("Lightning base type required for lightning DOT")
    ELSE IF BitAnd(flags, KeywordFlag.CHAOS_DOT) # 0 /\ BitAnd(flags, KeywordFlag.CHAOS) = 0
    THEN AssertionError("Chaos base type required for chaos DOT")
    ELSE IF BitAnd(flags, KeywordFlag.AILMENT) # 0 /\ BitAnd(flags, element_flags) = 0
    THEN AssertionError("Ailment requires a damage type")
    ELSE [ok |-> TRUE, val |-> TRUE]

\* [ok |-> TRUE, val |-> TRUE], or the AssertionError of the first assert that fails.
verify_damage_types(flags) ==
    IF BitAnd(flags, KeywordFlag.PHYSICAL_DOT) # 0 /\ BitAnd(flags, KeywordFlag.PHYSICAL) = 0
    THEN AssertionError("Physical base type required for physical DOT")
    ELSE IF BitAnd(flags, KeywordFlag.FIRE_DOT) # 0 /\ BitAnd(flags, KeywordFlag.FIRE) = 0
    THEN AssertionError("Fire base type required for fire DOT")
    ELSE IF BitAnd(flags, KeywordFlag.COLD_DOT) # 0 /\ BitAnd(flags, KeywordFlag.COLD) = 0
    THEN AssertionError("Cold base type required for cold DOT")
    ELSE IF BitAnd(flags, KeywordFlag.LIGHTNING_DOT) # 0 /\ BitAnd(flags, KeywordFlag.LIGHTNING) = 0
    THEN AssertionError("Lightning base type required for lightning DOT")
    ELSE IF BitAnd(flags, KeywordFlag.CHAOS_DOT) # 0 /\ BitAnd(flags, KeywordFlag.CHAOS) = 0
    THEN AssertionError("Chaos base type required for chaos DOT")
    ELSE IF BitAnd(flags, KeywordFlag.AILMENT) # 0 /\ BitAnd(flags, element_flags) = 0
    THEN AssertionError("Ailment requires a damage type")
    ELSE [ok |-> TRUE, val |-> TRUE]

(***************************************************************************)
(* Bounds and input pools.                                                 *)
(***************************************************************************)
\* The longest pattern list built by direct add_pattern calls.
MaxPatterns == 2

\* How many of the flags of FlagPool the flag sets passed to match_keyword_flags draw on.
MaxFlagBits == 4

FlagPool == <<KeywordFlag.FIRE, KeywordFlag.COLD, KeywordFlag.MATCH_ALL, KeywordFlag.PHYSICAL, KeywordFlag.LIGHTNING, KeywordFlag.CHAOS>>

UsedFlags == {FlagPool[k] : k \in 1..(IF MaxFlagBits < Len(FlagPool) THEN MaxFlagBits ELSE Len(FlagPool))}

FlagValues == {SetSum(S) : S \in SUBSET UsedFlags}

\* How many of the flags of WeaponFlagPool the sets passed to verify_weapon_flags draw on.
MaxWeaponBits == 7

WeaponFlagPool ==
    <<ModFlag.WEAPON_MELEE, ModFlag.WEAPON_RANGED, ModFlag.WEAPON_1H, ModFlag.WEAPON_2H, ModFlag.WEAPON, ModFlag.AXE, ModFlag.BOW,
      ModFlag.ATTACK, ModFlag.FISHING>>

UsedWeaponFlags ==
    {WeaponFlagPool[k] :
        k \in 1..(IF MaxWeaponBits < Len(WeaponFlagPool) THEN MaxWeaponBits ELSE Len(WeaponFlagPool))}

WeaponFlagValues == {SetSum(S) : S \in SUBSET UsedWeaponFlags}

\* How many of the flags of DamageFlagPool the sets passed to verify_damage_types draw on.
MaxDamageBits == 9

DamageFlagPool ==
    <<KeywordFlag.AILMENT, KeywordFlag.PHYSICAL_DOT, KeywordFlag.PHYSICAL, KeywordFlag.FIRE_DOT, KeywordFlag.FIRE, KeywordFlag.COLD_DOT, KeywordFlag.COLD,
      KeywordFlag.LIGHTNING_DOT, KeywordFlag.LIGHTNING, KeywordFlag.CHAOS_DOT, KeywordFlag.CHAOS, KeywordFlag.AURA>>

UsedDamageFlags ==
    {DamageFlagPool[k] :
        k \in 1..(IF MaxDamageBits < Len(DamageFlagPool) THEN MaxDamageBits ELSE Len(DamageFlagPool))}

DamageFlagValues == {SetSum(S) : S \in SUBSET UsedDamageFlags}

Numbers == {"2.5", "12"}

Resources == {"life", "energy shield"}

Amounts == {"5", "10"}

DamageTypes == {"fire"}

FlagLeadIns == {"you have ", "have ", "you are ", "are ", "gain ", "you gain "}

\* Texts that begin with a number and go on with a phrase no form-specific entry knows.
UnknownNumberTexts == {"50% someunknownmodifier", "1.5% regeneration"}

RegeneratedText(n, r) == n \o " " \o r \o " regenerated per second"

RegenerateText(n, r) == "regenerate " \o n \o " " \o r \o " per second"

RegeneratePercentText(n, r) == "regenerate " \o n \o "% " \o r \o " per second"

LoseText(n, r) == "lose " \o n \o " " \o r \o " per second"

AddsText(a, b, t, suffix) == "adds " \o a \o " to " \o b \o " " \o t \o " damage" \o suffix

Texts ==
    {RegeneratedText(n, r) : n \in Numbers, r \in Resources}
    \cup {RegenerateText(n, r) : n \in Numbers, r \in Resources}
    \cup {RegeneratePercentText(n, r) : n \in Numbers, r \in Resources}
    \cup {LoseText(n, r) : n \in Numbers, r \in Resources}
    \cup {AddsText(a, b, t, sfx) : a \in Amounts, b \in Amounts, t \in DamageTypes,
                                   sfx \in {"", " to spells", " to attacks"}}
    \cup {l \o "onslaught" : l \in FlagLeadIns}
    \cup UnknownNumberTexts
    \cup {"+10% to"}
    \cup {"50% increased", "not a real modifier", "you have 3 charges", "5 to 10", "x",
          "gain 1.2.3 life", "gain . life"}

\* One pattern text under a form of each family, and texts it matches.
VariantPool ==
    {<<"^(\\d+) to (\\d+) (\\w+)", f>> :
        f \in {"DAMAGE", "DAMAGE_SPELLS", "REGEN_FLAT", "DEGEN_PERCENT", "BASE", "PENETRATION"}}
    \cup {<<"^(\\d+)% increased", "INCREASE">>}

VariantTexts ==
    {"5 to 10 fire", "10 to 5 cold damage", "50% increased", "adds 5 to 10 fire damage",
     "2.5 life regenerated per second", "to 5"}

DamageValues == {FloatOfInt(0 - 5), FloatOfInt(5), FloatOfInt(10)}

(***************************************************************************)
(* modifier_name_model.py.  An Optional field holds None, written <<>>, or *)
(* a value v, written <<v>>.  A constructor gives [ok |-> TRUE, val |-> m] *)
(* or [ok |-> FALSE, exc |-> "ValidationError"].                           *)
(***************************************************************************)
None == <<>>

\* SkillType members, numbered by auto() from 1 in the order of the class body.
SkillType ==
    [ATTACK |-> 1,
     SPELL |-> 2,
     AURA |-> 42,
     HERALD |-> 55,
     CREATES_MINION |-> 81,
     RETALIATION |-> 125]

ValidationError == [ok |-> FALSE, exc |-> "ValidationError"]

validate_skill_type_unchecked(v, type) == [ok |-> TRUE, val |-> v]

\* ModifierTag.validate_skill_type(v, info), with type = info.data.get('type'): the
\* validated type, or None when the type field failed its own validation.
validate_skill_type(v, type) ==
    IF v # None /\ type # <<"SkillType">> THEN ValidationError
    ELSE [ok |-> TRUE, val |-> v]

\* ModifierTag(type=..., var=..., skillType=..., neg=...).  The fields are validated in
\* the order of the class body; type is <<s>> for the string s and <<>> for a value that
\* is not a string, which the str field rejects.  The tag is built when no field failed.
ModifierTag(type, var, skillType, neg) ==
    LET Checked(r) ==
            IF type = <<>> \/ ~r.ok THEN ValidationError
            ELSE [ok |-> TRUE,
                  val |-> [type |-> type[1], var |-> var, skillType |-> r.val, neg |-> neg]]
    IN  Checked(validate_skill_type(skillType, type))

\* The value of an Optional field of a model built from the keyword arguments kw.
FieldOf(kw, name) == IF name \in DOMAIN kw THEN <<kw[name]>> ELSE None

\* ModifierValue(**kw): kw is the record of the keyword arguments given.  value is
\* required; a tag argument is the outcome of its own constructor call, which has raised
\* before this call when it failed.
ModifierValue(kw) ==
    IF "value" \notin DOMAIN kw THEN ValidationError
    ELSE IF "tag" \in DOMAIN kw /\ ~kw.tag.ok THEN ValidationError
    ELSE [ok |-> TRUE,
          val |-> [value |-> kw.value,
                   flags |-> FieldOf(kw, "flags"),
                   keywordFlags |-> FieldOf(kw, "keywordFlags"),
                   tag |-> IF "tag" \in DOMAIN kw THEN <<kw.tag.val>> ELSE None,
                   tagList |-> FieldOf(kw, "tagList"),
                   addToMinion |-> FieldOf(kw, "addToMinion"),
                   addToSkill |-> FieldOf(kw, "addToSkill")]]

\* The two shapes of a category entry, Union[X, List[X]]: one value, or a list of values.
One(x) == [list |-> FALSE, one |-> x]

List(xs) == [list |-> TRUE, items |-> xs]

\* The fields ModifierNameMap declares.
ModelFields ==
    {"attributes", "life_mana", "defences", "damage_taken", "resistances", "charges",
     "dot_effects", "skills", "buffs", "damage", "ailments", "flask"}

ValidateUnion_first(field, v) ==
    IF field = "attributes" THEN [ok |-> TRUE, val |-> v]
    ELSE IF v.list
         THEN IF \E i \in DOMAIN v.items : ~v.items[i].ok THEN ValidationError
              ELSE [ok |-> TRUE,
                    val |-> List([i \in 1..(IF v.items = <<>> THEN 0 ELSE 1) |-> v.items[i].val])]
         ELSE IF ~v.one.ok THEN ValidationError ELSE [ok |-> TRUE, val |-> One(v.one.val)]

\* Validation of one entry of a category dict.  An attributes entry is a string or a list
\* of strings and is kept; an entry of another category is a ModifierValue, kept as it
\* is, or a list, validated element by element into a list of the same length and order.
ValidateUnion(field, v) ==
    IF field = "attributes" THEN [ok |-> TRUE, val |-> v]
    ELSE IF v.list
         THEN IF \E i \in DOMAIN v.items : ~v.items[i].ok THEN ValidationError
              ELSE [ok |-> TRUE, val |-> List([i \in DOMAIN v.items |-> v.items[i].val])]
         ELSE IF ~v.one.ok THEN ValidationError ELSE [ok |-> TRUE, val |-> One(v.one.val)]

\* A dict display {k1: v1, k2: v2, ...} is the sequence of its <<key, value>> items; the
\* dict it builds maps each key to the value of the last item that has it.
EmptyDict == [k \in {} |-> None]

Keys(items) == {items[i][1] : i \in DOMAIN items}

LastItem(items, k) == items[CHOOSE i \in DOMAIN items : items[i][1] = k /\ \A j \in DOMAIN items : items[j][1] = k => j <= i][2]

\* Validation of a category argument, Dict[str, Union[X, List[X]]].
ValidateDict(field, items) ==
    IF \E i \in DOMAIN items : ~ValidateUnion(field, items[i][2]).ok THEN ValidationError
    ELSE [ok |-> TRUE,
          val |-> [k \in Keys(items) |-> ValidateUnion(field, LastItem(items, k)).val]]

\* ModifierNameMap(**kw).  The class sets no extra='forbid' or 'allow', so a keyword that
\* is not a declared field is ignored; a declared field that is not given is an empty dict.
ModifierNameMap(kw) ==
    IF \E f \in ModelFields \cap DOMAIN kw : ~ValidateDict(f, kw[f]).ok THEN ValidationError
    ELSE [ok |-> TRUE,
          val |-> [f \in ModelFields |->
                      IF f \in DOMAIN kw THEN ValidateDict(f, kw[f]).val ELSE EmptyDict]]

(***************************************************************************)
(* The data of create_modifier_map: for each keyword argument of its       *)
(* ModifierNameMap call, the items of the dict display in the order        *)
(* written.  A keyword a ModifierTag call gives that is not a field of the *)
(* class is ignored by the constructor and stands in a comment.            *)
(***************************************************************************)
\* The keyword arguments of the ModifierNameMap call in create_modifier_map.
create_modifier_map_kwargs ==
    [
     attributes |-> <<
        <<"strength", One("Str")>>,
        <<"dexterity", One("Dex")>>,
        <<"intelligence", One("Int")>>,
        <<"omniscience", One("Omni")>>,
        <<"strength and dexterity", List(<<"Str", "Dex", "StrDex">>)>>,
        <<"strength and intelligence", List(<<"Str", "Int", "StrInt">>)>>,
        <<"dexterity and intelligence", List(<<"Dex", "Int", "DexInt">>)>>,
        <<"attributes", List(<<"Str", "Dex", "Int", "All">>)>>,
        <<"all attributes", List(<<"Str", "Dex", "Int", "All">>)>>,
        <<"devotion", One("Devotion")>>
     >>,
     life_mana |-> <<
        <<"life", One(ModifierValue([value |-> "Life"]))>>,
        <<"maximum life", One(ModifierValue([value |-> "Life"]))>>,
        <<"life regeneration rate", One(ModifierValue([value |-> "LifeRegen"]))>>,
        <<"mana", One(ModifierValue([value |-> "Mana"]))>>,
        <<"maximum mana", One(ModifierValue([value |-> "Mana"]))>>,
        <<"mana regeneration", One(ModifierValue([value |-> "ManaRegen"]))>>,
        <<"mana regeneration rate", One(ModifierValue([value |-> "ManaRegen"]))>>,
        <<"mana cost", One(ModifierValue([value |-> "ManaCost"]))>>,
        <<"mana cost of", One(ModifierValue([value |-> "ManaCost"]))>>,
        <<"mana cost of skills", One(ModifierValue([value |-> "ManaCost"]))>>,
        <<"mana cost of attacks", One(ModifierValue([value |-> "ManaCost", tag |-> ModifierTag(<<"SkillType">>, None, <<SkillType.ATTACK>>, None)]))>>,
        <<"total cost", One(ModifierValue([value |-> "Cost"]))>>,
        <<"total mana cost", One(ModifierValue([value |-> "ManaCost"]))>>,
        <<"total mana cost of skills", One(ModifierValue([value |-> "ManaCost"]))>>,
        <<"life cost of skills", One(ModifierValue([value |-> "LifeCost"]))>>,
        <<"rage cost of skills", One(ModifierValue([value |-> "RageCost"]))>>,
        <<"cost of", One(ModifierValue([value |-> "Cost"]))>>,
        <<"cost of skills", One(ModifierValue([value |-> "Cost"]))>>,
        <<"cost of attacks", One(ModifierValue([value |-> "Cost", tag |-> ModifierTag(<<"SkillType">>, None, <<SkillType.ATTACK>>, None)]))>>,
        <<"cost of retaliation skills", One(ModifierValue([value |-> "Cost", tag |-> ModifierTag(<<"SkillType">>, None, <<SkillType.RETALIATION>>, None)]))>>,
        <<"mana reserved", One(ModifierValue([value |-> "ManaReserved"]))>>,
        <<"mana reservation", One(ModifierValue([value |-> "ManaReserved"]))>>,
        <<"mana reservation of skills", One(ModifierValue([value |-> "ManaReserved", tag |-> ModifierTag(<<"SkillType">>, None, <<SkillType.AURA>>, None)]))>>,
        <<"mana reservation efficiency of skills", One(ModifierValue([value |-> "ManaReservationEfficiency"]))>>,
        <<"life reservation efficiency of skills", One(ModifierValue([value |-> "LifeReservationEfficiency"]))>>,
        <<"reservation of skills", One(ModifierValue([value |-> "Reserved"]))>>,
        <<"mana reservation if cast as an aura", One(ModifierValue([value |-> "ManaReserved", tag |-> ModifierTag(<<"SkillType">>, None, <<SkillType.AURA>>, None)]))>>,
        <<"reservation if cast as an aura", One(ModifierValue([value |-> "Reserved", tag |-> ModifierTag(<<"SkillType">>, None, <<SkillType.AURA>>, None)]))>>,
        <<"reservation", One(ModifierValue([value |-> "Reserved"]))>>,
        <<"reservation efficiency", One(ModifierValue([value |-> "ReservationEfficiency"]))>>,
        <<"reservation efficiency of skills", One(ModifierValue([value |-> "ReservationEfficiency"]))>>,
        <<"mana reservation efficiency", One(ModifierValue([value |-> "ManaReservationEfficiency"]))>>,
        <<"life reservation efficiency", One(ModifierValue([value |-> "LifeReservationEfficiency"]))>>,
        <<"life recovery rate", One(ModifierValue([value |-> "LifeRecoveryRate"]))>>,
        <<"mana recovery rate", One(ModifierValue([value |-> "ManaRecoveryRate"]))>>,
        <<"energy shield recovery rate", One(ModifierValue([value |-> "EnergyShieldRecoveryRate"]))>>,
        <<"recovery rate of life, mana and energy shield", List(<<ModifierValue([value |-> "LifeRecoveryRate"]), ModifierValue([value |-> "ManaRecoveryRate"]), ModifierValue([value |-> "EnergyShieldRecoveryRate"])>>)>>
     >>,
     defences |-> <<
        <<"maximum energy shield", One(ModifierValue([value |-> "EnergyShield"]))>>,
        <<"energy shield recharge rate", One(ModifierValue([value |-> "EnergyShieldRecharge"]))>>,
        <<"start of energy shield recharge", One(ModifierValue([value |-> "EnergyShieldRechargeFaster"]))>>,
        <<"restoration of ward", One(ModifierValue([value |-> "WardRechargeFaster"]))>>,
        <<"armour", One(ModifierValue([value |-> "Armour"]))>>,
        <<"evasion", One(ModifierValue([value |-> "Evasion"]))>>,
        <<"evasion rating", One(ModifierValue([value |-> "Evasion"]))>>,
        <<"energy shield", One(ModifierValue([value |-> "EnergyShield"]))>>,
        <<"ward", One(ModifierValue([value |-> "Ward"]))>>,
        <<"armour and evasion", One(ModifierValue([value |-> "ArmourAndEvasion"]))>>,
        <<"armour and evasion rating", One(ModifierValue([value |-> "ArmourAndEvasion"]))>>,
        <<"evasion rating and armour", One(ModifierValue([value |-> "ArmourAndEvasion"]))>>,
        <<"armour and energy shield", One(ModifierValue([value |-> "ArmourAndEnergyShield"]))>>,
        <<"evasion rating and energy shield", One(ModifierValue([value |-> "EvasionAndEnergyShield"]))>>,
        <<"evasion and energy shield", One(ModifierValue([value |-> "EvasionAndEnergyShield"]))>>,
        <<"armour, evasion and energy shield", One(ModifierValue([value |-> "Defences"]))>>,
        <<"defences", One(ModifierValue([value |-> "Defences"]))>>,
        <<"to evade", One(ModifierValue([value |-> "EvadeChance"]))>>,
        <<"chance to evade", One(ModifierValue([value |-> "EvadeChance"]))>>,
        <<"to evade attacks", One(ModifierValue([value |-> "EvadeChance"]))>>,
        <<"to evade attack hits", One(ModifierValue([value |-> "EvadeChance"]))>>,
        <<"chance to evade attacks", One(ModifierValue([value |-> "EvadeChance"]))>>,
        <<"chance to evade attack hits", One(ModifierValue([value |-> "EvadeChance"]))>>,
        <<"chance to evade projectile attacks", One(ModifierValue([value |-> "ProjectileEvadeChance"]))>>,
        <<"chance to evade melee attacks", One(ModifierValue([value |-> "MeleeEvadeChance"]))>>,
        <<"evasion rating against melee attacks", One(ModifierValue([value |-> "MeleeEvasion"]))>>,
        <<"evasion rating against projectile attacks", One(ModifierValue([value |-> "ProjectileEvasion"]))>>,
        <<"to block", One(ModifierValue([value |-> "BlockChance"]))>>,
        <<"to block attacks", One(ModifierValue([value |-> "BlockChance"]))>>,
        <<"block chance", One(ModifierValue([value |-> "BlockChance"]))>>,
        <<"chance to block", One(ModifierValue([value |-> "BlockChance"]))>>,
        <<"block chance with staves", One(ModifierValue([value |-> "BlockChance", tag |-> ModifierTag(<<"Condition">>, <<"UsingStaff">>, None, None)]))>>,
        <<"to block with staves", One(ModifierValue([value |-> "BlockChance", tag |-> ModifierTag(<<"Condition">>, <<"UsingStaff">>, None, None)]))>>,
        <<"block chance against projectiles", One(ModifierValue([value |-> "ProjectileBlockChance"]))>>,
        <<"to block projectile attack damage", One(ModifierValue([value |-> "ProjectileBlockChance"]))>>,
        <<"spell block chance", One(ModifierValue([value |-> "SpellBlockChance"]))>>,
        <<"to block spells", One(ModifierValue([value |-> "SpellBlockChance"]))>>,
        <<"maximum block chance", One(ModifierValue([value |-> "BlockChanceMax"]))>>,
        <<"life gained when you block", One(ModifierValue([value |-> "LifeOnBlock"]))>>,
        <<"mana gained when you block", One(ModifierValue([value |-> "ManaOnBlock"]))>>,
        <<"energy shield when you block", One(ModifierValue([value |-> "EnergyShieldOnBlock"]))>>
     >>,
     resistances |-> <<
        <<"physical damage reduction", One(ModifierValue([value |-> "PhysicalDamageReduction"]))>>,
        <<"physical damage reduction from hits", One(ModifierValue([value |-> "PhysicalDamageReductionWhenHit"]))>>,
        <<"elemental damage reduction", One(ModifierValue([value |-> "ElementalDamageReduction"]))>>,
        <<"fire resistance", One(ModifierValue([value |-> "FireResist"]))>>,
        <<"maximum fire resistance", One(ModifierValue([value |-> "FireResistMax"]))>>,
        <<"cold resistance", One(ModifierValue([value |-> "ColdResist"]))>>,
        <<"maximum cold resistance", One(ModifierValue([value |-> "ColdResistMax"]))>>,
        <<"lightning resistance", One(ModifierValue([value |-> "LightningResist"]))>>,
        <<"maximum lightning resistance", One(ModifierValue([value |-> "LightningResistMax"]))>>,
        <<"chaos damage taken over time", One(ModifierValue([value |-> "ChaosDamageTakenOverTime"]))>>,
        <<"chaos damage over time taken", One(ModifierValue([value |-> "ChaosDamageTakenOverTime"]))>>,
        <<"elemental damage taken", One(ModifierValue([value |-> "ElementalDamageTaken"]))>>,
        <<"elemental damage from hits taken", One(ModifierValue([value |-> "ElementalDamageFromHitsTaken"]))>>,
        <<"elemental damage taken when hit", One(ModifierValue([value |-> "ElementalDamageTakenWhenHit"]))>>,
        <<"elemental damage taken from hits", One(ModifierValue([value |-> "ElementalDamageTakenWhenHit"]))>>,
        <<"elemental damage taken over time", One(ModifierValue([value |-> "ElementalDamageTakenOverTime"]))>>,
        <<"cold and lightning damage taken", List(<<ModifierValue([value |-> "ColdDamageTaken"]), ModifierValue([value |-> "LightningDamageTaken"])>>)>>,
        <<"fire and lightning damage taken", List(<<ModifierValue([value |-> "FireDamageTaken"]), ModifierValue([value |-> "LightningDamageTaken"])>>)>>,
        <<"fire and cold damage taken", List(<<ModifierValue([value |-> "FireDamageTaken"]), ModifierValue([value |-> "ColdDamageTaken"])>>)>>,
        <<"physical and chaos damage taken", List(<<ModifierValue([value |-> "PhysicalDamageTaken"]), ModifierValue([value |-> "ChaosDamageTaken"])>>)>>,
        <<"reflected elemental damage taken", One(ModifierValue([value |-> "ElementalReflectedDamageTaken"]))>>,
        <<"damage is taken from mana before life", One(ModifierValue([value |-> "DamageTakenFromManaBeforeLife"]))>>,
        <<"lightning damage is taken from mana before life", One(ModifierValue([value |-> "LightningDamageTakenFromManaBeforeLife"]))>>,
        <<"damage taken from mana before life", One(ModifierValue([value |-> "DamageTakenFromManaBeforeLife"]))>>,
        <<"chaos resistance", One(ModifierValue([value |-> "ChaosResist"]))>>,
        <<"maximum chaos resistance", One(ModifierValue([value |-> "ChaosResistMax"]))>>,
        <<"fire and cold resistances", List(<<ModifierValue([value |-> "FireResist"]), ModifierValue([value |-> "ColdResist"])>>)>>,
        <<"fire and lightning resistances", List(<<ModifierValue([value |-> "FireResist"]), ModifierValue([value |-> "LightningResist"])>>)>>,
        <<"cold and lightning resistances", List(<<ModifierValue([value |-> "ColdResist"]), ModifierValue([value |-> "LightningResist"])>>)>>,
        <<"elemental resistance", One(ModifierValue([value |-> "ElementalResist"]))>>,
        <<"elemental resistances", One(ModifierValue([value |-> "ElementalResist"]))>>,
        <<"all elemental resistances", One(ModifierValue([value |-> "ElementalResist"]))>>,
        <<"all resistances", List(<<ModifierValue([value |-> "ElementalResist"]), ModifierValue([value |-> "ChaosResist"])>>)>>,
        <<"all maximum elemental resistances", One(ModifierValue([value |-> "ElementalResistMax"]))>>,
        <<"all maximum resistances", List(<<ModifierValue([value |-> "ElementalResistMax"]), ModifierValue([value |-> "ChaosResistMax"])>>)>>,
        <<"all elemental resistances and maximum elemental resistances", List(<<ModifierValue([value |-> "ElementalResist"]), ModifierValue([value |-> "ElementalResistMax"])>>)>>,
        <<"fire and chaos resistances", List(<<ModifierValue([value |-> "FireResist"]), ModifierValue([value |-> "ChaosResist"])>>)>>,
        <<"cold and chaos resistances", List(<<ModifierValue([value |-> "ColdResist"]), ModifierValue([value |-> "ChaosResist"])>>)>>,
        <<"lightning and chaos resistances", List(<<ModifierValue([value |-> "LightningResist"]), ModifierValue([value |-> "ChaosResist"])>>)>>
     >>,
     charges |-> <<
        <<"maximum power charge", One(ModifierValue([value |-> "PowerChargesMax"]))>>,
        <<"maximum power charges", One(ModifierValue([value |-> "PowerChargesMax"]))>>,
        <<"minimum power charge", One(ModifierValue([value |-> "PowerChargesMin"]))>>,
        <<"minimum power charges", One(ModifierValue([value |-> "PowerChargesMin"]))>>,
        <<"power charge duration", One(ModifierValue([value |-> "PowerChargesDuration"]))>>,
        <<"maximum frenzy charge", One(ModifierValue([value |-> "FrenzyChargesMax"]))>>,
        <<"maximum frenzy charges", One(ModifierValue([value |-> "FrenzyChargesMax"]))>>,
        <<"minimum frenzy charge", One(ModifierValue([value |-> "FrenzyChargesMin"]))>>,
        <<"minimum frenzy charges", One(ModifierValue([value |-> "FrenzyChargesMin"]))>>,
        <<"frenzy charge duration", One(ModifierValue([value |-> "FrenzyChargesDuration"]))>>,
        <<"maximum endurance charge", One(ModifierValue([value |-> "EnduranceChargesMax"]))>>,
        <<"maximum endurance charges", One(ModifierValue([value |-> "EnduranceChargesMax"]))>>,
        <<"minimum endurance charge", One(ModifierValue([value |-> "EnduranceChargesMin"]))>>,
        <<"minimum endurance charges", One(ModifierValue([value |-> "EnduranceChargesMin"]))>>,
        <<"minimum endurance, frenzy and power charges", List(<<ModifierValue([value |-> "PowerChargesMin"]), ModifierValue([value |-> "FrenzyChargesMin"]), ModifierValue([value |-> "EnduranceChargesMin"])>>)>>,
        <<"endurance charge duration", One(ModifierValue([value |-> "EnduranceChargesDuration"]))>>,
        <<"maximum frenzy charges and maximum power charges", List(<<ModifierValue([value |-> "FrenzyChargesMax"]), ModifierValue([value |-> "PowerChargesMax"])>>)>>,
        <<"maximum power charges and maximum endurance charges", List(<<ModifierValue([value |-> "PowerChargesMax"]), ModifierValue([value |-> "EnduranceChargesMax"])>>)>>,
        <<"maximum endurance, frenzy and power charges", List(<<ModifierValue([value |-> "EnduranceChargesMax"]), ModifierValue([value |-> "PowerChargesMax"]), ModifierValue([value |-> "FrenzyChargesMax"])>>)>>,
        <<"endurance, frenzy and power charge duration", List(<<ModifierValue([value |-> "PowerChargesDuration"]), ModifierValue([value |-> "FrenzyChargesDuration"]), ModifierValue([value |-> "EnduranceChargesDuration"])>>)>>,
        <<"maximum siphoning charge", One(ModifierValue([value |-> "SiphoningChargesMax"]))>>,
        <<"maximum siphoning charges", One(ModifierValue([value |-> "SiphoningChargesMax"]))>>,
        <<"maximum challenger charges", One(ModifierValue([value |-> "ChallengerChargesMax"]))>>,
        <<"maximum blitz charges", One(ModifierValue([value |-> "BlitzChargesMax"]))>>,
        <<"maximum number of crab barriers", One(ModifierValue([value |-> "CrabBarriersMax"]))>>,
        <<"maximum blood charges", One(ModifierValue([value |-> "BloodChargesMax"]))>>,
        <<"maximum spirit charges", One(ModifierValue([value |-> "SpiritChargesMax"]))>>,
        <<"charge duration", One(ModifierValue([value |-> "ChargeDuration"]))>>
     >>,
     dot_effects |-> <<
        <<"damage over time", One(ModifierValue([value |-> "Damage", flags |-> ModFlag.DOT]))>>,
        <<"physical damage over time", One(ModifierValue([value |-> "PhysicalDamage", keywordFlags |-> KeywordFlag.PHYSICAL_DOT]))>>,
        <<"cold damage over time", One(ModifierValue([value |-> "ColdDamage", keywordFlags |-> KeywordFlag.COLD_DOT]))>>,
        <<"fire damage over time", One(ModifierValue([value |-> "FireDamage", keywordFlags |-> KeywordFlag.FIRE_DOT]))>>,
        <<"chaos damage over time", One(ModifierValue([value |-> "ChaosDamage", keywordFlags |-> KeywordFlag.CHAOS_DOT]))>>,
        <<"physical damage over time multiplier", One(ModifierValue([value |-> "PhysicalDotMultiplier"]))>>,
        <<"fire damage over time multiplier", One(ModifierValue([value |-> "FireDotMultiplier"]))>>,
        <<"cold damage over time multiplier", One(ModifierValue([value |-> "ColdDotMultiplier"]))>>,
        <<"chaos damage over time multiplier", One(ModifierValue([value |-> "ChaosDotMultiplier"]))>>,
        <<"damage over time multiplier", One(ModifierValue([value |-> "DotMultiplier"]))>>
     >>,
     skills |-> <<
        <<"radius", One(ModifierValue([value |-> "AreaOfEffect"]))>>,
        <<"radius of area skills", One(ModifierValue([value |-> "AreaOfEffect"]))>>,
        <<"area of effect radius", One(ModifierValue([value |-> "AreaOfEffect"]))>>,
        <<"area of effect", One(ModifierValue([value |-> "AreaOfEffect"]))>>,
        <<"area of effect of skills", One(ModifierValue([value |-> "AreaOfEffect"]))>>,
        <<"area of effect of area skills", One(ModifierValue([value |-> "AreaOfEffect"]))>>,
        <<"duration", One(ModifierValue([value |-> "Duration"]))>>,
        <<"skill effect duration", One(ModifierValue([value |-> "Duration"]))>>,
        <<"chaos skill effect duration", One(ModifierValue([value |-> "Duration", keywordFlags |-> KeywordFlag.CHAOS]))>>,
        <<"cooldown recovery", One(ModifierValue([value |-> "CooldownRecovery"]))>>,
        <<"cooldown recovery speed", One(ModifierValue([value |-> "CooldownRecovery"]))>>,
        <<"cooldown recovery rate", One(ModifierValue([value |-> "CooldownRecovery"]))>>,
        <<"weapon range", One(ModifierValue([value |-> "WeaponRange"]))>>,
        <<"melee range", One(ModifierValue([value |-> "MeleeWeaponRange"]))>>,
        <<"melee weapon range", One(ModifierValue([value |-> "MeleeWeaponRange"]))>>,
        <<"to deal double damage", One(ModifierValue([value |-> "DoubleDamageChance"]))>>,
        <<"to deal triple damage", One(ModifierValue([value |-> "TripleDamageChance"]))>>,
        <<"critical strike chance", One(ModifierValue([value |-> "CritChance"]))>>,
        <<"attack critical strike chance", One(ModifierValue([value |-> "CritChance", flags |-> ModFlag.ATTACK]))>>,
        <<"critical strike multiplier", One(ModifierValue([value |-> "CritMultiplier"]))>>,
        <<"attack critical strike multiplier", One(ModifierValue([value |-> "CritMultiplier", flags |-> ModFlag.ATTACK]))>>,
        <<"accuracy", One(ModifierValue([value |-> "Accuracy"]))>>,
        <<"accuracy rating", One(ModifierValue([value |-> "Accuracy"]))>>,
        <<"minion accuracy rating", One(ModifierValue([value |-> "Accuracy", addToMinion |-> TRUE]))>>,
        <<"attack speed", One(ModifierValue([value |-> "Speed", flags |-> ModFlag.ATTACK]))>>,
        <<"cast speed", One(ModifierValue([value |-> "Speed", flags |-> ModFlag.CAST]))>>,
        <<"attack and cast speed", One(ModifierValue([value |-> "Speed"]))>>,
        <<"metres to weapon range", One(ModifierValue([value |-> "WeaponRangeMetre"]))>>,
        <<"metre to melee strike range", List(<<ModifierValue([value |-> "MeleeWeaponRangeMetre"]), ModifierValue([value |-> "UnarmedRangeMetre"])>>)>>,
        <<"projectile damage", One(ModifierValue([value |-> "Damage", flags |-> ModFlag.PROJECTILE]))>>,
        <<"projectile attack damage", One(ModifierValue([value |-> "Damage", flags |-> ModFlag.PROJECTILE + ModFlag.ATTACK]))>>
     >>,
     leech |-> <<
        <<"damage as life", One(ModifierValue([value |-> "DamageLifeLeech"]))>>,
        <<"life leeched per second", One(ModifierValue([value |-> "LifeLeechRate"]))>>,
        <<"mana leeched per second", One(ModifierValue([value |-> "ManaLeechRate"]))>>,
        <<"total recovery per second from life leech", One(ModifierValue([value |-> "LifeLeechRate"]))>>,
        <<"recovery per second from life leech", One(ModifierValue([value |-> "LifeLeechRate"]))>>,
        <<"total recovery per second from energy shield leech", One(ModifierValue([value |-> "EnergyShieldLeechRate"]))>>,
        <<"recovery per second from energy shield leech", One(ModifierValue([value |-> "EnergyShieldLeechRate"]))>>,
        <<"total recovery per second from mana leech", One(ModifierValue([value |-> "ManaLeechRate"]))>>,
        <<"recovery per second from mana leech", One(ModifierValue([value |-> "ManaLeechRate"]))>>,
        <<"total recovery per second from life, mana, or energy shield leech", List(<<ModifierValue([value |-> "LifeLeechRate"]), ModifierValue([value |-> "ManaLeechRate"]), ModifierValue([value |-> "EnergyShieldLeechRate"])>>)>>,
        <<"maximum recovery per life leech", One(ModifierValue([value |-> "MaxLifeLeechInstance"]))>>,
        <<"maximum recovery per energy shield leech", One(ModifierValue([value |-> "MaxEnergyShieldLeechInstance"]))>>,
        <<"maximum recovery per mana leech", One(ModifierValue([value |-> "MaxManaLeechInstance"]))>>,
        <<"maximum total recovery per second from life leech", One(ModifierValue([value |-> "MaxLifeLeechRate"]))>>,
        <<"maximum total life recovery per second from leech", One(ModifierValue([value |-> "MaxLifeLeechRate"]))>>,
        <<"maximum total recovery per second from energy shield leech", One(ModifierValue([value |-> "MaxEnergyShieldLeechRate"]))>>,
        <<"maximum total energy shield recovery per second from leech", One(ModifierValue([value |-> "MaxEnergyShieldLeechRate"]))>>,
        <<"maximum total recovery per second from mana leech", One(ModifierValue([value |-> "MaxManaLeechRate"]))>>,
        <<"maximum total mana recovery per second from leech", One(ModifierValue([value |-> "MaxManaLeechRate"]))>>,
        <<"maximum total life, mana and energy shield recovery per second from leech", List(<<ModifierValue([value |-> "MaxLifeLeechRate"]), ModifierValue([value |-> "MaxManaLeechRate"]), ModifierValue([value |-> "MaxEnergyShieldLeechRate"])>>)>>,
        <<"life and mana leech is instant", List(<<ModifierValue([value |-> "InstantManaLeech"]), ModifierValue([value |-> "InstantLifeLeech"])>>)>>,
        <<"life leech is instant", One(ModifierValue([value |-> "InstantLifeLeech"]))>>,
        <<"mana leech is instant", One(ModifierValue([value |-> "InstantManaLeech"]))>>,
        <<"energy shield leech is instant", One(ModifierValue([value |-> "InstantEnergyShieldLeech"]))>>,
        <<"leech is instant", List(<<ModifierValue([value |-> "InstantEnergyShieldLeech"]), ModifierValue([value |-> "InstantManaLeech"]), ModifierValue([value |-> "InstantLifeLeech"])>>)>>
     >>,
     minions |-> <<
        <<"maximum number of skeletons", One(ModifierValue([value |-> "ActiveSkeletonLimit"]))>>,
        <<"maximum number of zombies", One(ModifierValue([value |-> "ActiveZombieLimit"]))>>,
        <<"maximum number of raised zombies", One(ModifierValue([value |-> "ActiveZombieLimit"]))>>,
        <<"number of zombies allowed", One(ModifierValue([value |-> "ActiveZombieLimit"]))>>,
        <<"maximum number of spectres", One(ModifierValue([value |-> "ActiveSpectreLimit"]))>>,
        <<"maximum number of golems", One(ModifierValue([value |-> "ActiveGolemLimit"]))>>,
        <<"maximum number of summoned golems", One(ModifierValue([value |-> "ActiveGolemLimit"]))>>,
        <<"maximum number of summoned raging spirits", One(ModifierValue([value |-> "ActiveRagingSpiritLimit"]))>>,
        <<"maximum number of raging spirits", One(ModifierValue([value |-> "ActiveRagingSpiritLimit"]))>>,
        <<"maximum number of summoned phantasms", One(ModifierValue([value |-> "ActivePhantasmLimit"]))>>,
        <<"maximum number of summoned holy relics", One(ModifierValue([value |-> "ActiveHolyRelicLimit"]))>>,
        <<"number of summoned arbalists", One(ModifierValue([value |-> "ActiveArbalistLimit"]))>>,
        <<"minion duration", One(ModifierValue([value |-> "Duration", tag |-> ModifierTag(<<"SkillType">>, None, <<SkillType.CREATES_MINION>>, None)]))>>
     >>,
     on_hit |-> <<
        <<"life gained on kill", One(ModifierValue([value |-> "LifeOnKill"]))>>,
        <<"life per enemy killed", One(ModifierValue([value |-> "LifeOnKill"]))>>,
        <<"life on kill", One(ModifierValue([value |-> "LifeOnKill"]))>>,
        <<"life per enemy hit", One(ModifierValue([value |-> "LifeOnHit", flags |-> ModFlag.HIT]))>>,
        <<"life gained for each enemy hit", One(ModifierValue([value |-> "LifeOnHit", flags |-> ModFlag.HIT]))>>,
        <<"mana gained on kill", One(ModifierValue([value |-> "ManaOnKill"]))>>,
        <<"mana per enemy killed", One(ModifierValue([value |-> "ManaOnKill"]))>>,
        <<"mana on kill", One(ModifierValue([value |-> "ManaOnKill"]))>>,
        <<"mana per enemy hit", One(ModifierValue([value |-> "ManaOnHit", flags |-> ModFlag.HIT]))>>,
        <<"mana gained for each enemy hit", One(ModifierValue([value |-> "ManaOnHit", flags |-> ModFlag.HIT]))>>,
        <<"energy shield gained on kill", One(ModifierValue([value |-> "EnergyShieldOnKill"]))>>,
        <<"energy shield per enemy killed", One(ModifierValue([value |-> "EnergyShieldOnKill"]))>>,
        <<"energy shield on kill", One(ModifierValue([value |-> "EnergyShieldOnKill"]))>>,
        <<"energy shield per enemy hit", One(ModifierValue([value |-> "EnergyShieldOnHit", flags |-> ModFlag.HIT]))>>,
        <<"energy shield gained for each enemy hit", One(ModifierValue([value |-> "EnergyShieldOnHit", flags |-> ModFlag.HIT]))>>
     >>,
     curses |-> <<
        <<"effect of your curses", One(ModifierValue([value |-> "CurseEffect"]))>>,
        <<"effect of curses on you", One(ModifierValue([value |-> "CurseEffectOnSelf"]))>>,
        <<"effect of curses on them", One(ModifierValue([value |-> "CurseEffectOnSelf"]))>>,
        <<"curse effect", One(ModifierValue([value |-> "CurseEffect"]))>>,
        <<"curse duration", One(ModifierValue([value |-> "Duration", keywordFlags |-> KeywordFlag.CURSE]))>>,
        <<"effect of curses applied by bane", One(ModifierValue([value |-> "CurseEffect", tag |-> ModifierTag(<<"Condition">>, <<"AppliedByBane">>, None, None)]))>>,
        <<"radius of curses", One(ModifierValue([value |-> "AreaOfEffect", keywordFlags |-> KeywordFlag.CURSE]))>>
     >>,
     ailments |-> <<
        <<"to shock", One(ModifierValue([value |-> "EnemyShockChance"]))>>,
        <<"shock chance", One(ModifierValue([value |-> "EnemyShockChance"]))>>,
        <<"to freeze", One(ModifierValue([value |-> "EnemyFreezeChance"]))>>,
        <<"freeze chance", One(ModifierValue([value |-> "EnemyFreezeChance"]))>>,
        <<"to ignite", One(ModifierValue([value |-> "EnemyIgniteChance"]))>>,
        <<"ignite chance", One(ModifierValue([value |-> "EnemyIgniteChance"]))>>,
        <<"to freeze, shock and ignite", List(<<ModifierValue([value |-> "EnemyFreezeChance"]), ModifierValue([value |-> "EnemyShockChance"]), ModifierValue([value |-> "EnemyIgniteChance"])>>)>>,
        <<"effect of shock", One(ModifierValue([value |-> "EnemyShockEffect"]))>>,
        <<"effect of shock on you", One(ModifierValue([value |-> "SelfShockEffect"]))>>,
        <<"effect of shock you inflict", One(ModifierValue([value |-> "EnemyShockEffect"]))>>,
        <<"effect of shocks you inflict", One(ModifierValue([value |-> "EnemyShockEffect"]))>>,
        <<"effect of chill", One(ModifierValue([value |-> "EnemyChillEffect"]))>>,
        <<"effect of chill on you", One(ModifierValue([value |-> "SelfChillEffect"]))>>,
        <<"effect of chill you inflict", One(ModifierValue([value |-> "EnemyChillEffect"]))>>,
        <<"shock duration", One(ModifierValue([value |-> "EnemyShockDuration"]))>>,
        <<"freeze duration", One(ModifierValue([value |-> "EnemyFreezeDuration"]))>>,
        <<"chill duration", One(ModifierValue([value |-> "EnemyChillDuration"]))>>,
        <<"ignite duration", One(ModifierValue([value |-> "EnemyIgniteDuration"]))>>,
        <<"duration of elemental ailments", One(ModifierValue([value |-> "EnemyElementalAilmentDuration"]))>>,
        <<"effect of non-damaging ailments", List(<<ModifierValue([value |-> "EnemyShockEffect"]), ModifierValue([value |-> "EnemyChillEffect"]), ModifierValue([value |-> "EnemyFreezeEffect"]), ModifierValue([value |-> "EnemyScorchEffect"]), ModifierValue([value |-> "EnemyBrittleEffect"]), ModifierValue([value |-> "EnemySapEffect"])>>)>>
     >>,
     flask |-> <<
        <<"effect", One(ModifierValue([value |-> "LocalEffect"]))>>,
        <<"effect of flasks", One(ModifierValue([value |-> "FlaskEffect"]))>>,
        <<"effect of tinctures", One(ModifierValue([value |-> "TinctureEffect"]))>>,
        <<"amount recovered", One(ModifierValue([value |-> "FlaskRecovery"]))>>,
        <<"life recovered", One(ModifierValue([value |-> "FlaskRecovery"]))>>,
        <<"life recovery from flasks used", One(ModifierValue([value |-> "FlaskLifeRecovery"]))>>,
        <<"recovery", One(ModifierValue([value |-> "FlaskLifeRecoveryLowLife"]))>>,
        <<"mana recovered", One(ModifierValue([value |-> "FlaskRecovery"]))>>,
        <<"flask effect duration", One(ModifierValue([value |-> "FlaskDuration"]))>>,
        <<"recovery speed", One(ModifierValue([value |-> "FlaskRecoveryRate"]))>>,
        <<"recovery rate", One(ModifierValue([value |-> "FlaskRecoveryRate"]))>>,
        <<"flask recovery rate", One(ModifierValue([value |-> "FlaskRecoveryRate"]))>>,
        <<"flask recovery speed", One(ModifierValue([value |-> "FlaskRecoveryRate"]))>>,
        <<"flask life recovery rate", One(ModifierValue([value |-> "FlaskLifeRecoveryRate"]))>>,
        <<"flask mana recovery rate", One(ModifierValue([value |-> "FlaskManaRecoveryRate"]))>>,
        <<"extra charges", One(ModifierValue([value |-> "FlaskCharges"]))>>,
        <<"maximum charges", One(ModifierValue([value |-> "FlaskCharges"]))>>,
        <<"charges used", One(ModifierValue([value |-> "FlaskChargesUsed"]))>>,
        <<"charges per use", One(ModifierValue([value |-> "FlaskChargesUsed"]))>>,
        <<"flask charges used", One(ModifierValue([value |-> "FlaskChargesUsed"]))>>,
        <<"flask charges gained", One(ModifierValue([value |-> "FlaskChargesGained"]))>>,
        <<"charge recovery", One(ModifierValue([value |-> "FlaskChargeRecovery"]))>>,
        <<"for flasks you use to not consume charges", One(ModifierValue([value |-> "FlaskChanceNotConsumeCharges"]))>>,
        <<"for tinctures to not inflict mana burn", One(ModifierValue([value |-> "TincturesNotInflictManaBurn"]))>>,
        <<"mana burn rate", One(ModifierValue([value |-> "TinctureManaBurnRate"]))>>
     >>,
     traps_mines |-> <<
        <<"trap throwing speed", One(ModifierValue([value |-> "TrapThrowingSpeed"]))>>,
        <<"trap and mine throwing speed", List(<<ModifierValue([value |-> "TrapThrowingSpeed"]), ModifierValue([value |-> "MineLayingSpeed"])>>)>>,
        <<"trap trigger area of effect", One(ModifierValue([value |-> "TrapTriggerAreaOfEffect"]))>>,
        <<"trap duration", One(ModifierValue([value |-> "TrapDuration"]))>>,
        <<"cooldown recovery speed for throwing traps", One(ModifierValue([value |-> "CooldownRecovery", keywordFlags |-> KeywordFlag.TRAP]))>>,
        <<"cooldown recovery rate for throwing traps", One(ModifierValue([value |-> "CooldownRecovery", keywordFlags |-> KeywordFlag.TRAP]))>>,
        <<"additional trap", One(ModifierValue([value |-> "TrapThrowCount"]))>>,
        <<"additional traps", One(ModifierValue([value |-> "TrapThrowCount"]))>>,
        <<"mine laying speed", One(ModifierValue([value |-> "MineLayingSpeed"]))>>,
        <<"mine throwing speed", One(ModifierValue([value |-> "MineLayingSpeed"]))>>,
        <<"mine detonation area of effect", One(ModifierValue([value |-> "MineDetonationAreaOfEffect"]))>>,
        <<"mine duration", One(ModifierValue([value |-> "MineDuration"]))>>,
        <<"additional mine", One(ModifierValue([value |-> "MineThrowCount"]))>>,
        <<"additional mines", One(ModifierValue([value |-> "MineThrowCount"]))>>
     >>,
     miscellaneous |-> <<
        <<"movement speed", One(ModifierValue([value |-> "MovementSpeed"]))>>,
        <<"attack, cast and movement speed", List(<<ModifierValue([value |-> "Speed"]), ModifierValue([value |-> "MovementSpeed"])>>)>>,
        <<"action speed", One(ModifierValue([value |-> "ActionSpeed"]))>>,
        <<"light radius", One(ModifierValue([value |-> "LightRadius"]))>>,
        <<"rarity of items found", One(ModifierValue([value |-> "LootRarity"]))>>,
        <<"rarity of items dropped", One(ModifierValue([value |-> "LootRarity"]))>>,
        <<"quantity of items found", One(ModifierValue([value |-> "LootQuantity"]))>>,
        <<"quantity of items dropped", One(ModifierValue([value |-> "LootQuantity"]))>>,
        <<"item quantity", One(ModifierValue([value |-> "LootQuantity"]))>>,
        <<"strength requirement", One(ModifierValue([value |-> "StrRequirement"]))>>,
        <<"dexterity requirement", One(ModifierValue([value |-> "DexRequirement"]))>>,
        <<"intelligence requirement", One(ModifierValue([value |-> "IntRequirement"]))>>,
        <<"omni requirement", One(ModifierValue([value |-> "OmniRequirement"]))>>,
        <<"strength and intelligence requirement", List(<<ModifierValue([value |-> "StrRequirement"]), ModifierValue([value |-> "IntRequirement"])>>)>>,
        <<"attribute requirements", List(<<ModifierValue([value |-> "StrRequirement"]), ModifierValue([value |-> "DexRequirement"]), ModifierValue([value |-> "IntRequirement"])>>)>>,
        <<"effect of socketed jewels", One(ModifierValue([value |-> "SocketedJewelEffect"]))>>,
        <<"effect of socketed abyss jewels", One(ModifierValue([value |-> "SocketedJewelEffect"]))>>
     >>,
     condition_flags |-> <<
        <<"adrenaline", One(ModifierValue([value |-> "Condition:Adrenaline"]))>>,
        <<"elusive", One(ModifierValue([value |-> "Condition:CanBeElusive"]))>>,
        <<"onslaught", One(ModifierValue([value |-> "Condition:Onslaught"]))>>,
        <<"rampage", One(ModifierValue([value |-> "Condition:Rampage"]))>>,
        <<"soul eater", One(ModifierValue([value |-> "Condition:CanHaveSoulEater"]))>>,
        <<"phasing", One(ModifierValue([value |-> "Condition:Phasing"]))>>,
        <<"arcane surge", One(ModifierValue([value |-> "Condition:ArcaneSurge"]))>>,
        <<"unholy might", List(<<ModifierValue([value |-> "Condition:UnholyMight"]), ModifierValue([value |-> "Condition:CanWither"])>>)>>,
        <<"chaotic might", One(ModifierValue([value |-> "Condition:ChaoticMight"]))>>,
        <<"lesser brutal shrine buff", One(ModifierValue([value |-> "Condition:LesserBrutalShrine"]))>>,
        <<"lesser massive shrine buff", One(ModifierValue([value |-> "Condition:LesserMassiveShrine"]))>>,
        <<"diamond shrine buff", One(ModifierValue([value |-> "Condition:DiamondShrine"]))>>,
        <<"massive shrine buff", One(ModifierValue([value |-> "Condition:MassiveShrine"]))>>
     >>,
     damage_taken |-> <<
        <<"damage taken", One(ModifierValue([value |-> "DamageTaken"]))>>,
        <<"damage taken when hit", One(ModifierValue([value |-> "DamageTakenWhenHit"]))>>,
        <<"damage taken from hits", One(ModifierValue([value |-> "DamageTakenWhenHit"]))>>,
        <<"damage over time taken", One(ModifierValue([value |-> "DamageTakenOverTime"]))>>,
        <<"damage taken from damage over time", One(ModifierValue([value |-> "DamageTakenOverTime"]))>>,
        <<"attack damage taken", One(ModifierValue([value |-> "AttackDamageTaken"]))>>,
        <<"spell damage taken", One(ModifierValue([value |-> "SpellDamageTaken"]))>>,
        <<"physical damage taken from attacks", One(ModifierValue([value |-> "PhysicalDamageTakenFromAttacks"]))>>,
        <<"physical damage taken from attack hits", One(ModifierValue([value |-> "PhysicalDamageTakenFromAttacks"]))>>,
        <<"physical damage taken from projectile attacks", One(ModifierValue([value |-> "PhysicalDamageTakenFromProjectileAttacks"]))>>,
        <<"physical damage taken from projectile attack hits", One(ModifierValue([value |-> "PhysicalDamageTakenFromProjectileAttacks"]))>>,
        <<"fire, cold and lightning damage taken from spell hits", List(<<ModifierValue([value |-> "FireDamageTakenFromSpells"]), ModifierValue([value |-> "ColdDamageTakenFromSpells"]), ModifierValue([value |-> "LightningDamageTakenFromSpells"])>>)>>,
        <<"reflected physical damage taken", One(ModifierValue([value |-> "PhysicalReflectedDamageTaken"]))>>,
        <<"non-chaos damage taken bypasses energy shield", List(<<ModifierValue([value |-> "PhysicalEnergyShieldBypass"]), ModifierValue([value |-> "LightningEnergyShieldBypass"]), ModifierValue([value |-> "ColdEnergyShieldBypass"]), ModifierValue([value |-> "FireEnergyShieldBypass"])>>)>>
     >>,
     dodge |-> <<
        <<"to dodge attacks", One(ModifierValue([value |-> "AttackDodgeChance"]))>>,
        <<"to dodge attack hits", One(ModifierValue([value |-> "AttackDodgeChance"]))>>,
        <<"to dodge spells", One(ModifierValue([value |-> "SpellDodgeChance"]))>>,
        <<"to dodge spell hits", One(ModifierValue([value |-> "SpellDodgeChance"]))>>,
        <<"to dodge spell damage", One(ModifierValue([value |-> "SpellDodgeChance"]))>>,
        <<"to dodge attacks and spells", List(<<ModifierValue([value |-> "AttackDodgeChance"]), ModifierValue([value |-> "SpellDodgeChance"])>>)>>,
        <<"to dodge attacks and spell damage", List(<<ModifierValue([value |-> "AttackDodgeChance"]), ModifierValue([value |-> "SpellDodgeChance"])>>)>>,
        <<"to dodge attack and spell hits", List(<<ModifierValue([value |-> "AttackDodgeChance"]), ModifierValue([value |-> "SpellDodgeChance"])>>)>>,
        <<"maximum chance to dodge spell hits", One(ModifierValue([value |-> "SpellDodgeChanceMax"]))>>
     >>,
     avoid |-> <<
        <<"to avoid physical damage from hits", One(ModifierValue([value |-> "AvoidPhysicalDamageChance"]))>>,
        <<"to avoid fire damage when hit", One(ModifierValue([value |-> "AvoidFireDamageChance"]))>>,
        <<"to avoid fire damage from hits", One(ModifierValue([value |-> "AvoidFireDamageChance"]))>>,
        <<"to avoid cold damage when hit", One(ModifierValue([value |-> "AvoidColdDamageChance"]))>>,
        <<"to avoid cold damage from hits", One(ModifierValue([value |-> "AvoidColdDamageChance"]))>>,
        <<"to avoid lightning damage when hit", One(ModifierValue([value |-> "AvoidLightningDamageChance"]))>>,
        <<"to avoid lightning damage from hits", One(ModifierValue([value |-> "AvoidLightningDamageChance"]))>>,
        <<"to avoid elemental damage when hit", List(<<ModifierValue([value |-> "AvoidFireDamageChance"]), ModifierValue([value |-> "AvoidColdDamageChance"]), ModifierValue([value |-> "AvoidLightningDamageChance"])>>)>>,
        <<"to avoid elemental damage from hits", List(<<ModifierValue([value |-> "AvoidFireDamageChance"]), ModifierValue([value |-> "AvoidColdDamageChance"]), ModifierValue([value |-> "AvoidLightningDamageChance"])>>)>>,
        <<"to avoid projectiles", One(ModifierValue([value |-> "AvoidProjectilesChance"]))>>,
        <<"to avoid being stunned", One(ModifierValue([value |-> "AvoidStun"]))>>,
        <<"to avoid interruption from stuns while casting", One(ModifierValue([value |-> "AvoidInterruptStun"]))>>,
        <<"to ignore stuns while casting", One(ModifierValue([value |-> "AvoidInterruptStun"]))>>,
        <<"to avoid being shocked", One(ModifierValue([value |-> "AvoidShock"]))>>,
        <<"to avoid being frozen", One(ModifierValue([value |-> "AvoidFreeze"]))>>,
        <<"to avoid being chilled", One(ModifierValue([value |-> "AvoidChill"]))>>,
        <<"to avoid being ignited", One(ModifierValue([value |-> "AvoidIgnite"]))>>,
        <<"to avoid blind", One(ModifierValue([value |-> "AvoidBlind"]))>>,
        <<"to avoid elemental ailments", One(ModifierValue([value |-> "AvoidElementalAilments"]))>>,
        <<"to avoid elemental status ailments", One(ModifierValue([value |-> "AvoidElementalAilments"]))>>,
        <<"to avoid ailments", One(ModifierValue([value |-> "AvoidAilments"]))>>,
        <<"to avoid status ailments", One(ModifierValue([value |-> "AvoidAilments"]))>>,
        <<"to avoid bleeding", One(ModifierValue([value |-> "AvoidBleed"]))>>,
        <<"to avoid being poisoned", One(ModifierValue([value |-> "AvoidPoison"]))>>,
        <<"to avoid being impaled", One(ModifierValue([value |-> "AvoidImpale"]))>>
     >>,
     rage_and_fortification |-> <<
        <<"maximum rage", One(ModifierValue([value |-> "MaximumRage"]))>>,
        <<"minimum rage", One(ModifierValue([value |-> "MinimumRage"]))>>,
        <<"rage effect", One(ModifierValue([value |-> "RageEffect"]))>>,
        <<"maximum fortification", One(ModifierValue([value |-> "MaximumFortification"]))>>,
        <<"fortification", One(ModifierValue([value |-> "MinimumFortification"]))>>,
        <<"maximum valour", One(ModifierValue([value |-> "MaximumValour"]))>>
     >>,
     poison_and_bleed |-> <<
        <<"to poison", One(ModifierValue([value |-> "PoisonChance"]))>>,
        <<"to cause poison", One(ModifierValue([value |-> "PoisonChance"]))>>,
        <<"to poison on hit", One(ModifierValue([value |-> "PoisonChance"]))>>,
        <<"poison duration", One(ModifierValue([value |-> "EnemyPoisonDuration"]))>>,
        <<"to cause bleeding", One(ModifierValue([value |-> "BleedChance"]))>>,
        <<"to cause bleeding on hit", One(ModifierValue([value |-> "BleedChance"]))>>,
        <<"to inflict bleeding", One(ModifierValue([value |-> "BleedChance"]))>>,
        <<"to inflict bleeding on hit", One(ModifierValue([value |-> "BleedChance"]))>>,
        <<"to bleed", One(ModifierValue([value |-> "BleedChance"]))>>,
        <<"bleed duration", One(ModifierValue([value |-> "EnemyBleedDuration"]))>>,
        <<"bleeding duration", One(ModifierValue([value |-> "EnemyBleedDuration"]))>>
     >>,
     exposure |-> <<
        <<"to inflict fire exposure on hit", One(ModifierValue([value |-> "FireExposureChance"]))>>,
        <<"to apply fire exposure on hit", One(ModifierValue([value |-> "FireExposureChance"]))>>,
        <<"to inflict cold exposure on hit", One(ModifierValue([value |-> "ColdExposureChance"]))>>,
        <<"to apply cold exposure on hit", One(ModifierValue([value |-> "ColdExposureChance"]))>>,
        <<"to inflict lightning exposure on hit", One(ModifierValue([value |-> "LightningExposureChance"]))>>,
        <<"to apply lightning exposure on hit", One(ModifierValue([value |-> "LightningExposureChance"]))>>
     >>,
     recovery |-> <<
        <<"life recovery from flasks", One(ModifierValue([value |-> "FlaskLifeRecovery"]))>>,
        <<"mana recovery from flasks", One(ModifierValue([value |-> "FlaskManaRecovery"]))>>,
        <<"life and mana recovery from flasks", List(<<ModifierValue([value |-> "FlaskLifeRecovery"]), ModifierValue([value |-> "FlaskManaRecovery"])>>)>>
     >>,
     aura_effects |-> <<
        <<"aura effect", One(ModifierValue([value |-> "AuraEffect"]))>>,
        <<"effect of non-curse auras you cast", List(<<ModifierValue([value |-> "AuraEffect", tag |-> ModifierTag(<<"SkillType">>, None, <<SkillType.AURA>>, None)])>>)>>,
        <<"effect of non-curse auras from your skills", List(<<ModifierValue([value |-> "AuraEffect", tag |-> ModifierTag(<<"SkillType">>, None, <<SkillType.AURA>>, None)])>>)>>,
        <<"effect of auras on you", One(ModifierValue([value |-> "AuraEffectOnSelf"]))>>,
        <<"effect of arcane surge on you", One(ModifierValue([value |-> "ArcaneSurgeEffect"]))>>,
        <<"effect of buffs on you", One(ModifierValue([value |-> "BuffEffectOnSelf"]))>>,
        <<"effect of buffs granted by your golems", One(ModifierValue([value |-> "BuffEffect"]))>>,
        <<"effect of offering spells", One(ModifierValue([value |-> "BuffEffect", tag |-> ModifierTag(<<"SkillName">>, None, None, None) (* skillNameList=['Bone Offering', 'Flesh Offering', 'Spirit Offering', 'Blood Offering'] *)]))>>,
        <<"effect of offerings", One(ModifierValue([value |-> "BuffEffect", tag |-> ModifierTag(<<"SkillName">>, None, None, None) (* skillNameList=['Bone Offering', 'Flesh Offering', 'Spirit Offering', 'Blood Offering'] *)]))>>,
        <<"effect of heralds on you", One(ModifierValue([value |-> "BuffEffect", tag |-> ModifierTag(<<"SkillType">>, None, <<SkillType.HERALD>>, None)]))>>,
        <<"effect of herald buffs on you", One(ModifierValue([value |-> "BuffEffect", tag |-> ModifierTag(<<"SkillType">>, None, <<SkillType.HERALD>>, None)]))>>,
        <<"effect of shrine buffs on you", One(ModifierValue([value |-> "ShrineBuffEffect"]))>>,
        <<"radius of auras", One(ModifierValue([value |-> "AreaOfEffect", keywordFlags |-> KeywordFlag.AURA]))>>,
        <<"effect of withered", One(ModifierValue([value |-> "WitherEffect"]))>>,
        <<"effect of withered on you", One(ModifierValue([value |-> "WitherEffectOnSelf"]))>>
     >>,
     duration_effects |-> <<
        <<"soul gain prevention duration", One(ModifierValue([value |-> "SoulGainPreventionDuration"]))>>,
        <<"sentinel of absolution duration", One(ModifierValue([value |-> "SecondaryDuration"]))>>,
        <<"warcry speed", One(ModifierValue([value |-> "WarcrySpeed"]))>>,
        <<"fire trap burning ground duration", One(ModifierValue([value |-> "Duration", tag |-> ModifierTag(<<"SkillName">>, None, None, None) (* skillName='Fire Trap' *)]))>>,
        <<"aspect of the spider debuff duration", One(ModifierValue([value |-> "Duration", tag |-> ModifierTag(<<"SkillName">>, None, None, None) (* skillName='Aspect of the Spider' *)]))>>
     >>,
     brands |-> <<
        <<"activation frequency", One(ModifierValue([value |-> "BrandActivationFrequency"]))>>,
        <<"brand activation frequency", One(ModifierValue([value |-> "BrandActivationFrequency"]))>>,
        <<"brand attachment range", One(ModifierValue([value |-> "BrandAttachmentRange"]))>>
     >>,
     weapon_specifics |-> <<
        <<"bow damage", One(ModifierValue([value |-> "Damage", flags |-> ModFlag.BOW + ModFlag.HIT]))>>,
        <<"damage with arrow hits", One(ModifierValue([value |-> "Damage", flags |-> ModFlag.BOW + ModFlag.HIT]))>>,
        <<"wand damage", One(ModifierValue([value |-> "Damage", flags |-> ModFlag.WAND + ModFlag.HIT]))>>,
        <<"wand physical damage", One(ModifierValue([value |-> "PhysicalDamage", flags |-> ModFlag.WAND + ModFlag.HIT]))>>,
        <<"claw physical damage", One(ModifierValue([value |-> "PhysicalDamage", flags |-> ModFlag.CLAW + ModFlag.HIT]))>>,
        <<"sword physical damage", One(ModifierValue([value |-> "PhysicalDamage", flags |-> ModFlag.SWORD + ModFlag.HIT]))>>
     >>,
     suppression_and_recoup |-> <<
        <<"to suppress spell damage", One(ModifierValue([value |-> "SpellSuppressionChance"]))>>,
        <<"amount of suppressed spell damage prevented", One(ModifierValue([value |-> "SpellSuppressionEffect"]))>>,
        <<"damage taken recouped as life", One(ModifierValue([value |-> "LifeRecoup"]))>>,
        <<"physical damage taken recouped as life", One(ModifierValue([value |-> "PhysicalLifeRecoup"]))>>,
        <<"lightning damage taken recouped as life", One(ModifierValue([value |-> "LightningLifeRecoup"]))>>,
        <<"cold damage taken recouped as life", One(ModifierValue([value |-> "ColdLifeRecoup"]))>>,
        <<"fire damage taken recouped as life", One(ModifierValue([value |-> "FireLifeRecoup"]))>>,
        <<"chaos damage taken recouped as life", One(ModifierValue([value |-> "ChaosLifeRecoup"]))>>
     >>,
     impale_effects |-> <<
        <<"to impale enemies on hit", One(ModifierValue([value |-> "ImpaleChance"]))>>,
        <<"to impale on spell hit", One(ModifierValue([value |-> "ImpaleChance", flags |-> ModFlag.SPELL]))>>,
        <<"impale effect", One(ModifierValue([value |-> "ImpaleEffect"]))>>,
        <<"effect of impales you inflict", One(ModifierValue([value |-> "ImpaleEffect"]))>>,
        <<"effects of impale inflicted", One(ModifierValue([value |-> "ImpaleEffect"]))>>,
        <<"effect of impales inflicted", One(ModifierValue([value |-> "ImpaleEffect"]))>>,
        <<"impales you inflict last", One(ModifierValue([value |-> "ImpaleStacksMax"]))>>
     >>
    ]

\* create_modifier_map()
create_modifier_map == ModifierNameMap(create_modifier_map_kwargs)

\* mod_map.<field>[phrase]: the attribute of a name that is not a field is missing, and so
\* is the item of a phrase that is not a key.
resolve(map, field, phrase) ==
    IF field \notin ModelFields THEN Raised("AttributeError")
    ELSE IF phrase \notin DOMAIN map[field] THEN Raised("KeyError")
    ELSE [kind |-> "entry", val |-> map[field][phrase]]

\* The category dicts tried: up to MaxEntries items, each a phrase with one record, a
\* list of two records or a list naming one record twice; given as a declared field and
\* as a keyword that is not one.
MaxEntries == 2

EntryValues ==
    {One(ModifierValue([value |-> "ElementalResist"])),
     List(<<ModifierValue([value |-> "ElementalResist"]), ModifierValue([value |-> "ChaosResist"])>>),
     List(<<ModifierValue([value |-> "ChaosResist"]), ModifierValue([value |-> "ChaosResist"])>>)}

EntryPhrases == {"all resistances", "fire resistance"}

EntryItems == UNION {[1..n -> EntryPhrases \X EntryValues] : n \in 0..MaxEntries}

MapFields == {"resistances", "leech"}

ResolvePhrases == {"all resistances", "fire resistance", "all elemental resistances"}

\* The tag constructions tried: the tag types of the shipped data and a value that is not
\* a string, with and without a skill type.
TagTypes == {<<"SkillType">>, <<"Condition">>, <<"SkillName">>, <<>>}

TagVars == {None, <<"UsingStaff">>}

TagSkillTypes == {None, <<SkillType.ATTACK>>, <<SkillType.SPELL>>, <<SkillType.AURA>>, <<SkillType.RETALIATION>>}

TagNegs == {None, <<TRUE>>, <<FALSE>>}

\* The legacy escape tokens, and pattern texts made of one token between two texts that
\* hold no token.
LuaTokens == {"%d", "%a", "%+", "%-", "%.", "%?", "%s", "%%"}

TokenPrefixes == {"", "^", "a"}

TokenSuffixes == {"", "d", " x", "+"}

TokenForms == {"BASE", "INCREASE"}

\* The texts the threads parse, and the managers they share: each built by two add_pattern
\* calls before the threads start.
ThreadTexts == {"you have 3 charges", "50% increased", "5 to 10", "x"}

ManagerEntries ==
    {<<<<"^you have ", "FLAG">>, <<"^you have (\\d+)", "BASE">>>>,
     <<<<"^(\\d+)% increased", "INCREASE">>, <<"^(\\d+) to", "DAMAGE">>>>}

BuiltManagers ==
    {AppendPattern(AppendPattern(<<>>, e[1][1], e[1][2]).val, e[2][1], e[2][2]).val :
        e \in ManagerEntries}

(***************************************************************************)
(* colors.py: ColorCodes, a pydantic model with a dict of colour values    *)
(* (codes) and an optional RGB triple (rgb_highlight).  A dict is a        *)
(* function from its keys; a ColorCode member is the string it is made of. *)
(***************************************************************************)
HexChars == "0123456789ABCDEFabcdef"

IsHex(c) == \E k \in 1..Len(HexChars) : Ch(HexChars, k) = c

StartsWith(s, p) == Len(s) >= Len(p) /\ SubSeq(s, 1, Len(p)) = p

\* The dict display passed to super().__init__ by ColorCodes.__init__.
DefaultCodes ==
    <<<<"NORMAL", "^xC8C8C8">>, <<"MAGIC", "^x8888FF">>, <<"RARE", "^xFFFF77">>,
      <<"UNIQUE", "^xAF6025">>, <<"RELIC", "^x60C060">>, <<"GEM", "^x1AA29B">>,
      <<"PROPHECY", "^xB54BFF">>, <<"CURRENCY", "^xAA9E82">>, <<"CRAFTED", "^xB8DAF1">>,
      <<"CUSTOM", "^x5CF0BB">>, <<"SOURCE", "^x88FFFF">>, <<"UNSUPPORTED", "^xF05050">>,
      <<"WARNING", "^xFF9922">>, <<"TIP", "^x80A080">>, <<"FIRE", "^xB97123">>,
      <<"COLD", "^x3F6DB3">>, <<"LIGHTNING", "^xADAA47">>, <<"CHAOS", "^xD02090">>,
      <<"POSITIVE", "^x33FF77">>, <<"NEGATIVE", "^xDD0022">>, <<"HIGHLIGHT", "^xFF0000">>,
      <<"OFFENCE", "^xE07030">>, <<"DEFENCE", "^x8080E0">>, <<"SCION", "^xFFF0F0">>,
      <<"MARAUDER", "^xE05030">>, <<"RANGER", "^x70FF70">>, <<"WITCH", "^x7070FF">>,
      <<"DUELIST", "^xE0E070">>, <<"TEMPLAR", "^xC040FF">>, <<"SHADOW", "^x30C0D0">>,
      <<"MAINHAND", "^x50FF50">>, <<"MAINHANDBG", "^x071907">>, <<"OFFHAND", "^xB7B7FF">>,
      <<"OFFHANDBG", "^x070719">>, <<"SHAPER", "^x55BBFF">>, <<"ELDER", "^xAA77CC">>,
      <<"FRACTURED", "^xA29160">>, <<"ADJUDICATOR", "^xE9F831">>, <<"BASILISK", "^x00CB3A">>,
      <<"CRUSADER", "^x2946FC">>, <<"EYRIE", "^xAAB7B8">>, <<"CLEANSING", "^xF24141">>,
      <<"TANGLE", "^x038C8C">>, <<"CHILLBG", "^x151e26">>, <<"FREEZEBG", "^x0c262b">>,
      <<"SHOCKBG", "^x191732">>, <<"SCORCHBG", "^x270b00">>, <<"BRITTLEBG", "^x00122b">>,
      <<"SAPBG", "^x261500">>, <<"SCOURGE", "^xFF6E25">>, <<"CRUCIBLE", "^xFFA500">>>>

derived_mappings ==
    <<<<"STRENGTH", "MARAUDER">>, <<"DEXTERITY", "RANGER">>, <<"INTELLIGENCE", "WITCH">>,
      <<"LIFE", "MARAUDER">>, <<"MANA", "WITCH">>, <<"ES", "SOURCE">>, <<"WARD", "RARE">>,
      <<"ARMOUR", "NORMAL">>, <<"EVASION", "POSITIVE">>, <<"RAGE", "WARNING">>, <<"PHYS", "NORMAL">>>>

DictOf(items) ==
    [k \in {items[i][1] : i \in 1..Len(items)} |->
        items[CHOOSE i \in 1..Len(items) :
                  /\ items[i][1] = k
                  /\ \A j \in 1..Len(items) : items[j][1] = k => j <= i][2]]

validate_color_codes(codes) ==
    IF \A code_name \in DOMAIN codes :
           /\ StartsWith(codes[code_name], "^x")
           /\ Len(codes[code_name]) = 8
           /\ \A i \in 3..Len(codes[code_name]) : IsHex(Ch(codes[code_name], i))
    THEN [ok |-> TRUE, val |-> codes]
    ELSE ValidationError

\* The loop over derived_mappings from its k-th item on: self.codes[derived] = self.codes[base].
RECURSIVE AddDerived(_, _)
AddDerived(codes, k) ==
    LET Put(derived, base) ==
            IF base \notin DOMAIN codes THEN AssertionError("Base color not found")
            ELSE AddDerived([c \in DOMAIN codes \cup {derived} |->
                                IF c = derived THEN codes[base] ELSE codes[c]], k + 1)
    IN  IF k > Len(derived_mappings) THEN [ok |-> TRUE, val |-> codes]
        ELSE Put(derived_mappings[k][1], derived_mappings[k][2])

\* ColorCodes()
ColorCodes ==
    LET Made(d) == IF ~d.ok THEN d ELSE [ok |-> TRUE, val |-> [codes |-> d.val, rgb_highlight |-> None]]
        Checked(v) == IF ~v.ok THEN v ELSE Made(AddDerived(v.val, 1))
    IN  Checked(validate_color_codes(DictOf(DefaultCodes)))

\* int(s, 16) for a string of two characters: two hexadecimal digits, or one with a sign
\* before it or white space beside it; anything else is a ValueError.
IntHex(s) ==
    LET a == Ch(s, 1)
        b == Ch(s, 2)
        HexValue(c) ==
            LET Pos(k) == IF k <= 16 THEN k - 1 ELSE k - 7
            IN  Pos(CHOOSE k \in 1..Len(HexChars) : Ch(HexChars, k) = c)
    IN  IF IsHex(a) /\ IsHex(b) THEN [ok |-> TRUE, val |-> 16 * HexValue(a) + HexValue(b)]
        ELSE IF a \in {"+", " "} /\ IsHex(b) THEN [ok |-> TRUE, val |-> HexValue(b)]
        ELSE IF a = "-" /\ IsHex(b) THEN [ok |-> TRUE, val |-> 0 - HexValue(b)]
        ELSE IF IsHex(a) /\ b = " " THEN [ok |-> TRUE, val |-> HexValue(a)]
        ELSE [ok |-> FALSE, exc |-> "ValueError"]

\* ColorCodes.hex_to_rgb(hex_color): None as <<>>, a triple t as <<t>>.
hex_to_rgb(hex_color) ==
    LET Triple(r, g, b) ==
            IF ~(r.ok /\ g.ok /\ b.ok) THEN [ok |-> TRUE, val |-> None]
            ELSE IF r.val < 0 \/ g.val < 0 \/ b.val < 0
            THEN AssertionError("RGB values out of range")
            ELSE [ok |-> TRUE,
                  val |-> <<<<Normalize([num |-> r.val, den |-> 255]),
                              Normalize([num |-> g.val, den |-> 255]),
                              Normalize([num |-> b.val, den |-> 255])>>>>]
        Cleaned(h) ==
            IF Len(h) # 6 THEN [ok |-> TRUE, val |-> None]
            ELSE Triple(IntHex(SubSeq(h, 1, 2)), IntHex(SubSeq(h, 3, 4)), IntHex(SubSeq(h, 5, 6)))
    IN  Cleaned(Replace(Replace(hex_color, "0x", ""), "#", ""))

\* self.update_color_code(code, color): the instance afterwards, and the exception raised
\* if any.
update_color_code(self, code, color) ==
    LET Failed(obj, msg) == [self |-> obj, ok |-> FALSE, exc |-> "AssertionError", msg |-> msg]
        Highlight(obj, rgb) ==
            IF ~rgb.ok THEN Failed(obj, rgb.msg)
            ELSE [self |-> [obj EXCEPT !.rgb_highlight = rgb.val], ok |-> TRUE]
        Assign(obj, c) ==
            IF code = "HIGHLIGHT" THEN Highlight(obj, hex_to_rgb(c))
            ELSE [self |-> obj, ok |-> TRUE]
        Store(c) ==
            IF Len(c) # 8 THEN Failed(self, "Invalid color length after processing")
            ELSE IF ~StartsWith(c, "^x") THEN Failed(self, "Invalid color prefix after processing")
            ELSE Assign([self EXCEPT !.codes[code] = c], c)
        Clean(c) ==
            IF StartsWith(c, "0") \/ StartsWith(c, "#")
            THEN Store("^x" \o Replace(Replace(c, "0x", ""), "#", ""))
            ELSE Store(c)
    IN  IF code \notin DOMAIN self.codes THEN Failed(self, "Invalid color code")
        ELSE IF ~(StartsWith(color, "^") \/ StartsWith(color, "0") \/ StartsWith(color, "#"))
        THEN Failed(self, "Invalid color format")
        ELSE Clean(Replace(color, "^0", "^"))

\* The codes and colours update_color_code is called with.
CodePool == {"NORMAL", "HIGHLIGHT", "LIFE", "TURQUOISE"}

ColourPool ==
    {"^xFF0000", "^x12ab9F", "#00FF00", "0x0000FF", "^0xABCDEF", "^xZZZZZZ", "#GGGGGG",
     "^x#12#34", "FF0000", "#FFF", "^1234567"}

(***************************************************************************)
(* The state: the pattern list of the ModifierManager in use, the most     *)
(* recent call with its arguments and its outcome, and for each thread the *)
(* parse_modifier call it is in: its text and the position of its loop     *)
(* over the pattern list, or the outcome it returned; and the              *)
(* ModifierNameMap in use, a dict from phrases to entries for each field;   *)
(* and the ColorCodes instance in use.                                     *)
(***************************************************************************)
VARIABLES patterns, last, threads, names, colors

vars == <<patterns, last, threads, names, colors>>

\* How many threads call parse_modifier on the shared manager.
MaxThreads == 2

Threads == 1..MaxThreads

Init ==
    /\ patterns = <<>>
    /\ last = [op |-> "ModifierManager"]
    /\ threads = [t \in Threads |-> [pc |-> "idle"]]
    /\ names = ModifierNameMap(<<>>).val
    /\ colors = ColorCodes.val

\* ModifierManager(): a manager with an empty pattern list.
NewManager ==
    /\ patterns' = <<>>
    /\ last' = [op |-> "ModifierManager"]
    /\ UNCHANGED <<threads, names, colors>>

AddPattern_prepending(v, f) ==
    /\ Len(patterns) < MaxPatterns
    /\ LET Done(r) ==
               /\ patterns' = IF r.ok THEN <<r.val[Len(r.val)]>> \o patterns ELSE patterns
               /\ last' = [op |-> "add_pattern", pattern |-> v, form |-> f,
                           ret |-> IF r.ok THEN [kind |-> "None"]
                                   ELSE [kind |-> "Raised", exc |-> r.exc, msg |-> r.msg]]
       IN  Done(AppendPattern(patterns, v, f))
    /\ UNCHANGED <<threads, names, colors>>

\* manager.add_pattern(v, f)
AddPattern(v, f) ==
    /\ Len(patterns) < MaxPatterns
    /\ LET Done(r) ==
               /\ patterns' = IF r.ok THEN r.val ELSE patterns
               /\ last' = [op |-> "add_pattern", pattern |-> v, form |-> f,
                           ret |-> IF r.ok THEN [kind |-> "None"]
                                   ELSE [kind |-> "Raised", exc |-> r.exc, msg |-> r.msg]]
       IN  Done(AppendPattern(patterns, v, f))
    /\ UNCHANGED <<threads, names, colors>>

\* manager = create_modifier_manager()
CreateModifierManager ==
    /\ LET Done(r) ==
               /\ patterns' = IF r.ok THEN r.val ELSE patterns
               /\ last' = [op |-> "create_modifier_manager",
                           ret |-> IF r.ok THEN [kind |-> "ModifierManager"] ELSE Raised(r.exc)]
       IN  Done(create_modifier_manager)
    /\ UNCHANGED <<threads, names, colors>>

ParseModifier_consuming(text) ==
    /\ last' = [op |-> "parse_modifier", text |-> text, ret |-> parse_modifier(patterns, text)]
    /\ LET Without(k) ==
               IF k = 0 THEN patterns
               ELSE SubSeq(patterns, 1, k - 1) \o SubSeq(patterns, k + 1, Len(patterns))
       IN  patterns' = Without(FirstTruthy(patterns, text))
    /\ UNCHANGED <<threads, names, colors>>

\* manager.parse_modifier(text)
ParseModifier(text) ==
    /\ last' = [op |-> "parse_modifier", text |-> text, ret |-> parse_modifier(patterns, text)]
    /\ UNCHANGED <<patterns, threads, names, colors>>

\* DamageModifier(text=..., form=DAMAGE, min_damage=lo, max_damage=hi, damage_type="fire")
NewDamageModifier(lo, hi) ==
    /\ LET Done(d) ==
               last' = [op |-> "DamageModifier", min_damage |-> lo, max_damage |-> hi,
                        ret |-> IF d.ok THEN d.val ELSE Raised(d.exc)]
       IN  Done(DamageModifier("invalid damage modifier", "DAMAGE", lo, hi, <<"fire">>))
    /\ UNCHANGED <<patterns, threads, names, colors>>

Next ==
    \/ NewManager
    \/ \E e \in PatternPool : AddPattern(e[1], e[2])
    \/ CreateModifierManager
    \/ \E text \in Texts : ParseModifier(text)
    \/ \E lo \in DamageValues, hi \in DamageValues : NewDamageModifier(lo, hi)

Spec == Init /\ [][Next]_vars

\* match_keyword_flags(have, required)
MatchKeywordFlags(have, required) ==
    /\ last' = [op |-> "match_keyword_flags", keyword_flags |-> have,
                mod_keyword_flags |-> required, ret |-> match_keyword_flags(have, required)]
    /\ UNCHANGED <<patterns, threads, names, colors>>

FlagNext == \E have \in FlagValues, required \in FlagValues : MatchKeywordFlags(have, required)

FlagSpec == Init /\ [][FlagNext]_vars

\* A shared manager, fully built, and no thread in a call.
ThreadInit ==
    /\ patterns \in BuiltManagers
    /\ last = [op |-> "ModifierManager"]
    /\ threads = [t \in Threads |-> [pc |-> "idle"]]
    /\ names = ModifierNameMap(<<>>).val
    /\ colors = ColorCodes.val

\* Thread t calls manager.parse_modifier(text) and is about to take the first pattern.
Call(t, text) ==
    /\ threads[t].pc # "loop"
    /\ threads' = [threads EXCEPT ![t] = [pc |-> "loop", text |-> text, k |-> 1]]
    /\ UNCHANGED <<patterns, last, names, colors>>

\* Thread t makes one pass of the loop of its call.
Iterate(t) ==
    /\ threads[t].pc = "loop"
    /\ threads' = [threads EXCEPT ![t] = LoopStep(patterns, threads[t])]
    /\ UNCHANGED <<patterns, last, names, colors>>

ThreadNext ==
    \/ \E t \in Threads, text \in ThreadTexts : Call(t, text)
    \/ \E t \in Threads : Iterate(t)

ThreadSpec == ThreadInit /\ [][ThreadNext]_vars

\* ModifierPattern(pattern=v, form=f)
NewModifierPattern(v, f) ==
    /\ LET Done(r) ==
               last' = [op |-> "ModifierPattern", pattern |-> v, form |-> f,
                        ret |-> IF r.ok
                                THEN [kind |-> "ModifierPattern", pattern |-> r.val.pattern,
                                      form |-> r.val.form]
                                ELSE [kind |-> "Raised", exc |-> r.exc, msg |-> r.msg]]
       IN  Done(ModifierPattern(v, f))
    /\ UNCHANGED <<patterns, threads, names, colors>>

PatternNext ==
    \E pre \in TokenPrefixes, tok \in LuaTokens, suf \in TokenSuffixes, f \in TokenForms :
        NewModifierPattern(pre \o tok \o suf, f)

PatternSpec == Init /\ [][PatternNext]_vars

\* ModFlag.verify_weapon_flags(flags)
VerifyWeaponFlags(flags) ==
    /\ last' = [op |-> "verify_weapon_flags", flags |-> flags, ret |-> verify_weapon_flags(flags)]
    /\ UNCHANGED <<patterns, threads, names, colors>>

WeaponNext == \E flags \in WeaponFlagValues : VerifyWeaponFlags(flags)

WeaponSpec == Init /\ [][WeaponNext]_vars

\* flags & ModFlag.WEAPON_MASK
MaskWeapon(flags) ==
    /\ last' = [op |-> "WEAPON_MASK", flags |-> flags, ret |-> BitAnd(flags, ModFlag.WEAPON_MASK)]
    /\ UNCHANGED <<patterns, threads, names, colors>>

MaskNext == \E flags \in WeaponFlagValues : MaskWeapon(flags)

MaskSpec == Init /\ [][MaskNext]_vars

\* colors = ColorCodes()
NewColorCodes ==
    /\ LET Done(r) ==
               /\ colors' = IF r.ok THEN r.val ELSE colors
               /\ last' = [op |-> "ColorCodes",
                           ret |-> IF r.ok THEN [kind |-> "ColorCodes"] ELSE Raised(r.exc)]
       IN  Done(ColorCodes)
    /\ UNCHANGED <<patterns, threads, names>>

\* colors.update_color_code(code, color)
UpdateColorCode(code, color) ==
    /\ LET Done(r) ==
               /\ colors' = r.self
               /\ last' = [op |-> "update_color_code", code |-> code, color |-> color,
                           ret |-> IF r.ok THEN [kind |-> "None"]
                                   ELSE [kind |-> "Raised", exc |-> r.exc, msg |-> r.msg]]
       IN  Done(update_color_code(colors, code, color))
    /\ UNCHANGED <<patterns, threads, names>>

ColorNext ==
    \/ NewColorCodes
    \/ \E code \in CodePool, color \in ColourPool : UpdateColorCode(code, color)

ColorSpec == Init /\ [][ColorNext]_vars

\* KeywordFlag.verify_damage_types(flags)
VerifyDamageTypes(flags) ==
    /\ last' = [op |-> "verify_damage_types", flags |-> flags, ret |-> verify_damage_types(flags)]
    /\ UNCHANGED <<patterns, threads, names, colors>>

DamageTypeNext == \E flags \in DamageFlagValues : VerifyDamageTypes(flags)

DamageTypeSpec == Init /\ [][DamageTypeNext]_vars

\* ModifierTag(type=type, var=var, skillType=skillType, neg=neg)
NewModifierTag(type, var, skillType, neg) ==
    /\ last' = [op |-> "ModifierTag", type |-> type, var |-> var, skillType |-> skillType,
                neg |-> neg, ret |-> ModifierTag(type, var, skillType, neg)]
    /\ UNCHANGED <<patterns, threads, names, colors>>

\* mod_map = ModifierNameMap(<field>=<dict of the items>); a call that raises binds
\* nothing.
NewModifierNameMap(field, items) ==
    /\ LET Done(r) ==
               /\ last' = [op |-> "ModifierNameMap", field |-> field, items |-> items,
                           ok |-> r.ok]
               /\ names' = IF r.ok THEN r.val ELSE names
       IN  Done(ModifierNameMap([f \in {field} |-> items]))
    /\ UNCHANGED <<patterns, threads, colors>>

\* mod_map = create_modifier_map()
CreateModifierMap ==
    /\ last' = [op |-> "create_modifier_map", ok |-> create_modifier_map.ok]
    /\ names' = IF create_modifier_map.ok THEN create_modifier_map.val ELSE names
    /\ UNCHANGED <<patterns, threads, colors>>

\* mod_map.<field>[phrase]
Resolve(field, phrase) ==
    /\ last' = [op |-> "resolve", field |-> field, phrase |-> phrase,
                ret |-> resolve(names, field, phrase)]
    /\ UNCHANGED <<patterns, threads, names, colors>>

NameNext ==
    \/ \E type \in TagTypes, var \in TagVars, skillType \in TagSkillTypes, neg \in TagNegs :
           NewModifierTag(type, var, skillType, neg)
    \/ \E field \in MapFields, items \in EntryItems : NewModifierNameMap(field, items)
    \/ CreateModifierMap
    \/ \E field \in MapFields, phrase \in ResolvePhrases : Resolve(field, phrase)

NameSpec == Init /\ [][NameNext]_vars

\* add_pattern and parse_modifier with one pattern text of three groups registered under
\* forms of each family.
VariantNext ==
    \/ NewManager
    \/ \E e \in VariantPool : AddPattern(e[1], e[2])
    \/ CreateModifierManager
    \/ \E text \in VariantTexts : ParseModifier(text)

VariantSpec == Init /\ [][VariantNext]_vars

\* The two builders run on the shipped data, and the reads of what they built.
BuildNext ==
    \/ CreateModifierManager
    \/ CreateModifierMap
    \/ \E text \in Texts : ParseModifier(text)
    \/ \E field \in MapFields, phrase \in ResolvePhrases : Resolve(field, phrase)

BuildSpec == Init /\ [][BuildNext]_vars

(***************************************************************************)
(* Properties.                                                             *)
(***************************************************************************)
IsParse == last.op = "parse_modifier"

IsShipped == create_modifier_manager.ok /\ patterns = create_modifier_manager.val

\* The positions of the registered patterns that match the text.
MatchingPatterns(text) == {k \in 1..Len(patterns) : match(patterns[k], text).some}

Earliest(S) == CHOOSE k \in S : \A j \in S : k <= j

IsModifier(r) == r.kind \in {"NumericModifier", "DamageModifier", "RegenerationModifier"}

\* The explicit unresolved result: an error object that carries the text.
IsUnresolved(r, text) == r.kind = "ErrorModifier" /\ r.text = text

\* C1: first-match-wins.  When two or more registered patterns match the text, the
\* result of parse_modifier is a modifier whose form is the form of the earliest
\* registered pattern that matches.
C1_FirstMatchWins ==
    IsParse =>
        LET m == MatchingPatterns(last.text)
        IN  Cardinality(m) >= 2 =>
                IsModifier(last.ret) /\ last.ret.form = patterns[Earliest(m)].form

\* C2: when no registered pattern matches the text, parse_modifier returns an explicit
\* unresolved result that carries the text; it never returns None.
C2_NoMatchIsUnresolved ==
    (IsParse /\ MatchingPatterns(last.text) = {}) => IsUnresolved(last.ret, last.text)

\* The captures cannot be turned into the payload the form family requires.
Unusable(form, caps) ==
    IF form \in DamageForms
    THEN Len(caps) < 3 \/ ~PyFloat(caps[1]).ok \/ ~PyFloat(caps[2]).ok \/ caps[3] = <<>>
    ELSE IF form \in RegenForms
    THEN Len(caps) < 2 \/ ~PyFloat(caps[1]).ok \/ caps[2] = <<>>
    ELSE ~PyFloat(caps[1]).ok

\* C3: when the pattern that is dispatched on matched but its captures are unusable
\* (not a number, a group that did not participate, too few groups), parse_modifier
\* returns an unresolved result carrying the text and raises no exception.
C3_MalformedCaptureIsUnresolved ==
    IsParse =>
        LET k == FirstTruthy(patterns, last.text)
        IN  (k # 0 /\ Unusable(patterns[k].form, match(patterns[k], last.text).list))
                => IsUnresolved(last.ret, last.text)

\* C4: when the earliest matching pattern has no capture group, parse_modifier returns
\* a NumericModifier with that pattern's form and value 0.
C4_NoGroupGivesZero ==
    IsParse =>
        LET m == MatchingPatterns(last.text)
        IN  (m # {} /\ match(patterns[Earliest(m)], last.text).list = <<>>)
                => last.ret = [kind |-> "NumericModifier", text |-> last.text,
                               form |-> patterns[Earliest(m)].form, value |-> FloatOfInt(0)]

IsFlagCall == last.op = "match_keyword_flags"

\* C5: all-required mode.  When required carries MATCH_ALL, match_keyword_flags returns
\* true exactly when every flag of required other than MATCH_ALL is a flag of have
\* (MATCH_ALL in have not counting); a requirement of MATCH_ALL alone always matches.
C5_MatchAllMode ==
    (IsFlagCall /\ KeywordFlag.MATCH_ALL \in BitsOf(last.mod_keyword_flags)) =>
        /\ last.ret.ok
        /\ last.ret.val <=> (BitsOf(last.mod_keyword_flags) \ {KeywordFlag.MATCH_ALL})
                                \subseteq (BitsOf(last.keyword_flags) \ {KeywordFlag.MATCH_ALL})
        /\ last.mod_keyword_flags = KeywordFlag.MATCH_ALL => last.ret.val

\* A call in all-required mode with a required flag missing, answered false.
C5_Witness ==
    /\ IsFlagCall
    /\ last.keyword_flags = KeywordFlag.FIRE
    /\ last.mod_keyword_flags = KeywordFlag.FIRE + KeywordFlag.COLD + KeywordFlag.MATCH_ALL
    /\ last.ret.ok /\ ~last.ret.val

\* C6: any-match mode.  When required does not carry MATCH_ALL, match_keyword_flags
\* returns true exactly when required is 0 or have and required share a flag; so
\* match_keyword_flags(h, 0) is true for every h.
C6_MatchAnyMode ==
    (IsFlagCall /\ KeywordFlag.MATCH_ALL \notin BitsOf(last.mod_keyword_flags)) =>
        /\ last.ret.ok
        /\ last.ret.val <=> \/ last.mod_keyword_flags = 0
                            \/ BitsOf(last.keyword_flags) \cap BitsOf(last.mod_keyword_flags) # {}

\* A call with an empty requirement and a non-empty have, answered true.
C6_Witness ==
    /\ IsFlagCall
    /\ last.mod_keyword_flags = 0
    /\ last.keyword_flags = KeywordFlag.FIRE + KeywordFlag.COLD
    /\ last.ret.ok /\ last.ret.val

\* C7: every DamageModifier that exists, whether constructed directly or returned by
\* parse_modifier, satisfies 0 <= min_damage <= max_damage.
C7_DamageRangeInvariant ==
    (last.op \in {"parse_modifier", "DamageModifier"} /\ last.ret.kind = "DamageModifier") =>
        /\ FloatLeq(FloatOfInt(0), last.ret.min_damage)
        /\ FloatLeq(last.ret.min_damage, last.ret.max_damage)

\* C8: with the shipped table, '<number> <resource> regenerated per second' is a
\* RegenerationModifier with form REGEN_FLAT, the number as value and the resource word.
C8_RegeneratedIsRegenFlat ==
    \A n \in Numbers, r \in Resources :
        (IsParse /\ IsShipped /\ last.text = RegeneratedText(n, r)) =>
            last.ret = [kind |-> "RegenerationModifier", text |-> last.text,
                        form |-> "REGEN_FLAT", value |-> PyFloat(<<n>>).val, resource |-> r]

DamageResult(text, form, a, b, t) ==
    [kind |-> "DamageModifier", text |-> text, form |-> form,
     min_damage |-> PyFloat(<<a>>).val, max_damage |-> PyFloat(<<b>>).val, damage_type |-> t]

\* C9: with the shipped table, 'adds A to B T damage to spells' is a DamageModifier
\* with form DAMAGE_SPELLS, '... to attacks' one with form DAMAGE_ATTACKS, and the
\* plain 'adds A to B T damage' one with form DAMAGE, each with min A, max B, type T.
C9_DamageTargetForms ==
    \A a \in Amounts, b \in Amounts, t \in DamageTypes :
        (IsParse /\ IsShipped) =>
            /\ last.text = AddsText(a, b, t, " to spells")
                   => last.ret = DamageResult(last.text, "DAMAGE_SPELLS", a, b, t)
            /\ last.text = AddsText(a, b, t, " to attacks")
                   => last.ret = DamageResult(last.text, "DAMAGE_ATTACKS", a, b, t)
            /\ last.text = AddsText(a, b, t, "")
                   => last.ret = DamageResult(last.text, "DAMAGE", a, b, t)

RegenResult(text, form, n, r) ==
    [kind |-> "RegenerationModifier", text |-> text, form |-> form,
     value |-> PyFloat(<<n>>).val, resource |-> r]

\* C10: with the shipped table, 'regenerate N R per second' is a RegenerationModifier
\* with form REGEN_FLAT, 'regenerate N% R per second' one with form REGEN_PERCENT and
\* 'lose N R per second' one with form DEGEN_FLAT, with value N and resource R.
C10_RegenerateForms ==
    \A n \in Numbers, r \in Resources :
        (IsParse /\ IsShipped) =>
            /\ last.text = RegenerateText(n, r)
                   => last.ret = RegenResult(last.text, "REGEN_FLAT", n, r)
            /\ last.text = RegeneratePercentText(n, r)
                   => last.ret = RegenResult(last.text, "REGEN_PERCENT", n, r)
            /\ last.text = LoseText(n, r)
                   => last.ret = RegenResult(last.text, "DEGEN_FLAT", n, r)

\* C11: with the shipped table, a text that begins with a number and continues with a
\* phrase no form-specific pattern recognises is reported as unresolved, never
\* classified as a modifier of some form.
C11_UnknownNumberTextIsUnresolved ==
    (IsParse /\ IsShipped /\ last.text \in UnknownNumberTexts) =>
        IsUnresolved(last.ret, last.text)

IsWeaponCall == last.op = "verify_weapon_flags"

WeaponTypes ==
    {ModFlag.AXE, ModFlag.BOW, ModFlag.CLAW, ModFlag.DAGGER, ModFlag.MACE, ModFlag.STAFF, ModFlag.SWORD, ModFlag.WAND, ModFlag.UNARMED,
     ModFlag.FISHING}

WeaponClasses == {ModFlag.WEAPON_MELEE, ModFlag.WEAPON_RANGED, ModFlag.WEAPON_1H, ModFlag.WEAPON_2H}

\* The four conditions on the set B of flags a flag set carries.
WeaponConsistent(B) ==
    /\ ~({ModFlag.WEAPON_MELEE, ModFlag.WEAPON_RANGED} \subseteq B)
    /\ ~({ModFlag.WEAPON_1H, ModFlag.WEAPON_2H} \subseteq B)
    /\ (B \cap WeaponTypes # {} => ModFlag.WEAPON \in B)
    /\ (B \cap WeaponClasses # {} => B \cap WeaponTypes # {})

\* C12: verify_weapon_flags returns True exactly when the flag set is not both melee and
\* ranged, not both 1H and 2H, carries WEAPON with any weapon type, and carries a weapon
\* type with any weapon class; every other flag set ends in a failure (AssertionError).
C12_WeaponFlagsVerified ==
    IsWeaponCall =>
        /\ last.ret.ok <=> WeaponConsistent(BitsOf(last.flags))
        /\ last.ret.ok => last.ret.val = TRUE
        /\ ~last.ret.ok => last.ret.exc = "AssertionError"

\* A one-handed and two-handed axe, otherwise consistent, rejected.
C12_Witness ==
    /\ IsWeaponCall
    /\ last.flags = ModFlag.WEAPON_1H + ModFlag.WEAPON_2H + ModFlag.WEAPON + ModFlag.AXE
    /\ ~last.ret.ok

IsDamageTypeCall == last.op = "verify_damage_types"

\* Each damage-over-time flag with its own base element flag.
DotBase ==
    {<<KeywordFlag.PHYSICAL_DOT, KeywordFlag.PHYSICAL>>, <<KeywordFlag.FIRE_DOT, KeywordFlag.FIRE>>, <<KeywordFlag.COLD_DOT, KeywordFlag.COLD>>,
     <<KeywordFlag.LIGHTNING_DOT, KeywordFlag.LIGHTNING>>, <<KeywordFlag.CHAOS_DOT, KeywordFlag.CHAOS>>}

Elements == {KeywordFlag.FIRE, KeywordFlag.COLD, KeywordFlag.LIGHTNING, KeywordFlag.CHAOS, KeywordFlag.PHYSICAL}

DamageTypesConsistent(B) ==
    /\ \A e \in DotBase : e[1] \in B => e[2] \in B
    /\ KeywordFlag.AILMENT \in B => B \cap Elements # {}

\* C13: verify_damage_types returns True exactly when every damage-over-time flag that
\* is set comes with its own base element flag and AILMENT, if set, comes with at least
\* one element flag; every other flag set ends in a failure (AssertionError).
C13_DamageTypesVerified ==
    IsDamageTypeCall =>
        /\ last.ret.ok <=> DamageTypesConsistent(BitsOf(last.flags))
        /\ last.ret.ok => last.ret.val = TRUE
        /\ ~last.ret.ok => last.ret.exc = "AssertionError"

\* A cold damage-over-time flag with another element but not COLD, rejected.
C13_Witness ==
    /\ IsDamageTypeCall
    /\ last.flags = KeywordFlag.COLD_DOT + KeywordFlag.FIRE + KeywordFlag.AILMENT
    /\ ~last.ret.ok

Contains(s, sub) == \E k \in 1..(Len(s) - Len(sub) + 1) : SubSeq(s, k, k + Len(sub) - 1) = sub

\* The pattern text compiles after the dialect translation.
Compiles(v) == re_compile_cached(LuaToPython(v)).ok

\* C14: an add_pattern whose pattern does not compile after translation ends in a
\* ValueError whose message contains 'Invalid regular expression pattern' and leaves
\* the pattern list as it was; every pattern in the list always compiles.
C14_InvalidPatternRejected ==
    /\ [](\A k \in 1..Len(patterns) : re_compile_cached(patterns[k].pattern).ok)
    /\ [][(last'.op = "add_pattern" /\ ~Compiles(last'.pattern)) =>
              /\ patterns' = patterns
              /\ last'.ret.kind = "Raised" /\ last'.ret.exc = "ValueError"
              /\ Contains(last'.ret.msg, "Invalid regular expression pattern")]_vars

\* The pattern with the unmatched bracket refused by a manager that holds a pattern.
C14_Witness ==
    /\ last.op = "add_pattern" /\ last.pattern = "^[unmatched"
    /\ last.ret.kind = "Raised"
    /\ Len(patterns) = 1

\* The target form of each legacy escape token.
TokenTarget(tok) ==
    CASE tok = "%d" -> "\\d"
      [] tok = "%a" -> "[a-zA-Z]"
      [] tok = "%+" -> "\\+"
      [] tok = "%-" -> "\\-"
      [] tok = "%." -> "\\."
      [] tok = "%?" -> "\\?"
      [] tok = "%s" -> "\\s"
      [] tok = "%%" -> "%"

\* C15: for a pattern made of token-free text and one legacy token, the stored pattern
\* is the same text with the token replaced by its target form.
C15_TokenTranslated ==
    \A pre \in TokenPrefixes, tok \in LuaTokens, suf \in TokenSuffixes :
        (last.op = "ModifierPattern" /\ last.pattern = pre \o tok \o suf) =>
            /\ last.ret.kind = "ModifierPattern"
            /\ last.ret.pattern = pre \o TokenTarget(tok) \o suf

\* C16: a pattern already written in the target dialect is stored unchanged: add_pattern
\* stores the text it is given and create_modifier_manager stores every entry as it is
\* written in the table, so that '+10% to' is a NumericModifier with form BASE, value 10.
C16_TargetDialectStoredUnchanged ==
    /\ (last.op = "add_pattern" /\ last.ret.kind = "None") =>
            patterns[Len(patterns)].pattern = last.pattern
    /\ (last.op = "create_modifier_manager" /\ last.ret.kind = "ModifierManager") =>
            /\ Len(patterns) = Len(ShippedPatterns)
            /\ \A k \in 1..Len(patterns) : patterns[k].pattern = ShippedPatterns[k][1]
    /\ (IsParse /\ IsShipped /\ last.text = "+10% to") =>
            last.ret = [kind |-> "NumericModifier", text |-> last.text, form |-> "BASE",
                        value |-> FloatOfInt(10)]

\* C18: under any interleaving of parse_modifier calls by several threads on one shared,
\* fully built manager, every call returns the outcome it returns when run alone, and
\* the pattern list is never written.
C18_ConcurrentReadsSafe ==
    /\ [](\A t \in Threads :
            threads[t].pc = "done" => threads[t].ret = parse_modifier(patterns, threads[t].text))
    /\ [][patterns' = patterns]_vars

\* One thread has returned from its call while another is in the middle of its loop.
C18_Witness ==
    \E t, u \in Threads :
        /\ threads[t].pc = "done" /\ threads[t].ret.kind = "NumericModifier"
        /\ threads[u].pc = "loop" /\ threads[u].k = 2

IsTagCall == last.op = "ModifierTag"

\* C19: no ModifierTag has skillType set while its type is not 'SkillType'.
\* Constructing a tag with a skillType and any other type fails with a validation error;
\* with type 'SkillType' and a skillType, or with a string type and no skillType, the
\* construction succeeds and the tag holds the values given.
C19_SkillTypeOnlyOnSkillTypeTag ==
    IsTagCall =>
        /\ (last.skillType # None /\ last.type # <<"SkillType">>) =>
               (~last.ret.ok /\ last.ret.exc = "ValidationError")
        /\ (last.type # <<>> /\ (last.type = <<"SkillType">> \/ last.skillType = None)) =>
               /\ last.ret.ok
               /\ last.ret.val.type = last.type[1]
               /\ last.ret.val.skillType = last.skillType
        /\ last.ret.ok => (last.ret.val.skillType = None \/ last.ret.val.type = "SkillType")

\* ModifierTag(type="Condition", skillType=SkillType.ATTACK) was rejected.
C19_Witness ==
    /\ IsTagCall
    /\ last.type = <<"Condition">> /\ last.skillType = <<SkillType.ATTACK>>
    /\ ~last.ret.ok

\* A ModifierValue that has its value and no other field.
PlainValue(name) ==
    [value |-> name, flags |-> None, keywordFlags |-> None, tag |-> None, tagList |-> None,
     addToMinion |-> None, addToSkill |-> None]

\* The stored entry is the list given: as long, and the same record at every position.
KeptAsGiven(stored, given) ==
    /\ stored.list
    /\ Len(stored.items) = Len(given.items)
    /\ \A i \in 1..Len(given.items) : given.items[i].ok /\ stored.items[i] = given.items[i].val

\* C20: a phrase registered with a list of records resolves to that list, every element
\* kept, none merged, in the order given; and in the map create_modifier_map returns,
\* 'all resistances' resolves to the two records ElementalResist, ChaosResist in that order.
C20_ListEntryResolvesToItsList ==
    /\ (last.op = "ModifierNameMap" /\ last.field \in ModelFields) =>
           /\ last.ok
           /\ \A k \in Keys(last.items) :
                  LastItem(last.items, k).list =>
                      /\ resolve(names, last.field, k).kind = "entry"
                      /\ KeptAsGiven(resolve(names, last.field, k).val, LastItem(last.items, k))
    /\ last.op = "create_modifier_map" =>
           /\ last.ok
           /\ resolve(names, "resistances", "all resistances") =
                  [kind |-> "entry",
                   val |-> List(<<PlainValue("ElementalResist"), PlainValue("ChaosResist")>>)]
    /\ (last.op = "resolve" /\ last.ret.kind = "entry") =>
           last.ret.val = names[last.field][last.phrase]

\* 'all resistances' resolved, in the map create_modifier_map returned, to a list of two.
C20_Witness ==
    /\ last.op = "resolve" /\ last.field = "resistances" /\ last.phrase = "all resistances"
    /\ names = create_modifier_map.val
    /\ last.ret.kind = "entry" /\ last.ret.val.list /\ Len(last.ret.val.items) = 2

\* The entry the map holds for a value written in the data: the record, or the list of
\* the records, the constructor calls written there return.
Given(field, v) ==
    IF field = "attributes" THEN v
    ELSE IF v.list THEN List([i \in DOMAIN v.items |-> v.items[i].val])
    ELSE One(v.one.val)

\* The phrase is in the map, under some category, with the entry e.
Present(map, phrase, e) ==
    \E f \in DOMAIN map : phrase \in DOMAIN map[f] /\ map[f][phrase] = e

\* C21: create_modifier_map returns a fully populated map.  Every phrase written in any
\* keyword argument of its ModifierNameMap call is in the returned map with the record or
\* records given for it, and every keyword is a category of the map.
C21_FullyPopulated ==
    last.op = "create_modifier_map" =>
        /\ last.ok
        /\ \A c \in DOMAIN create_modifier_map_kwargs :
               /\ c \in DOMAIN names
               /\ \A i \in DOMAIN create_modifier_map_kwargs[c] :
                      Present(names, create_modifier_map_kwargs[c][i][1],
                              Given(c, LastItem(create_modifier_map_kwargs[c],
                                                create_modifier_map_kwargs[c][i][1])))

\* C22: build soundness.  create_modifier_manager and create_modifier_map complete on the
\* shipped data without raising, and the table holds one entry for every shipped pattern,
\* in the order written, with the form written and the stored text of the pattern.
C22_BuildSound ==
    /\ last.op = "create_modifier_manager" =>
           /\ last.ret.kind = "ModifierManager"
           /\ Len(patterns) = Len(ShippedPatterns)
           /\ \A k \in 1..Len(ShippedPatterns) :
                  /\ patterns[k].form = ShippedPatterns[k][2]
                  /\ patterns[k].pattern = LuaToPython(ShippedPatterns[k][1])
    /\ last.op = "create_modifier_map" => last.ok

\* Both builders have run: the table of 80 entries and the map with its data.
C22_Witness ==
    /\ last.op = "create_modifier_manager" /\ last.ret.kind = "ModifierManager"
    /\ Len(patterns) = 80
    /\ "all resistances" \in DOMAIN names.resistances

\* The result r is the variant the form calls for, made of the captures caps.
VariantOf(form, text, caps, r) ==
    /\ r.form = form /\ r.text = text
    /\ form \in DamageForms =>
           /\ r.kind = "DamageModifier"
           /\ Len(caps) >= 3
           /\ r.min_damage = PyFloat(caps[1]).val
           /\ r.max_damage = PyFloat(caps[2]).val
           /\ <<r.damage_type>> = caps[3]
    /\ form \in RegenForms =>
           /\ r.kind = "RegenerationModifier"
           /\ Len(caps) >= 2
           /\ r.value = PyFloat(caps[1]).val
           /\ <<r.resource>> = caps[2]
    /\ form \notin DamageForms \cup RegenForms =>
           /\ r.kind = "NumericModifier"
           /\ r.value = PyFloat(caps[1]).val

\* The pattern the result of the call came from is the k-th.
FromPattern(k, text, r) == VariantOf(patterns[k].form, text, match(patterns[k], text).list, r)

\* C23: the variant of a resolved result is decided by the form of the pattern it came
\* from.  A damage form gives a DamageModifier of captures 1, 2, 3, a regeneration form a
\* RegenerationModifier of captures 1, 2, any other form a NumericModifier of capture 1;
\* the result has the pattern's form and the input text.  With the shipped table,
\* '50% increased' is Numeric INCREASE 50 and 'adds 5 to 10 fire damage' is Damage DAMAGE
\* 5, 10, 'fire'.
C23_VariantDecidedByForm ==
    /\ (IsParse /\ IsModifier(last.ret)) =>
           FromPattern(FirstTruthy(patterns, last.text), last.text, last.ret)
    /\ (IsParse /\ IsShipped /\ last.text = "50% increased") =>
           last.ret = [kind |-> "NumericModifier", text |-> last.text, form |-> "INCREASE",
                       value |-> FloatOfInt(50)]
    /\ (IsParse /\ IsShipped /\ last.text = "adds 5 to 10 fire damage") =>
           last.ret = [kind |-> "DamageModifier", text |-> last.text, form |-> "DAMAGE",
                       min_damage |-> FloatOfInt(5), max_damage |-> FloatOfInt(10),
                       damage_type |-> "fire"]

\* '5 to 10 fire' parsed by a three-group pattern registered under a regeneration form.
C23_Witness ==
    /\ IsParse /\ Len(patterns) = 1 /\ patterns[1].form = "REGEN_FLAT"
    /\ last.text = "5 to 10 fire"
    /\ last.ret.kind = "RegenerationModifier"

\* C24: no entry of the shipped table is unreachable.  Every entry that matches some text
\* is the entry the result of some text comes from: no entry is shadowed by the entries
\* registered before it.
C24_NoEntryShadowed ==
    (last.op = "create_modifier_manager" /\ last.ret.kind = "ModifierManager") =>
        LET Covered(sources) ==
                \A k \in 1..Len(patterns) :
                    (\E text \in Texts : match(patterns[k], text).some) => k \in sources
        IN  Covered({FirstTruthy(patterns, text) : text \in Texts})

\* The records of an entry: the one record, or the elements of the list.
RecordsOf(e) == IF e.list THEN {e.items[i] : i \in DOMAIN e.items} ELSE {e.one}

\* The flags of the record pass verify_weapon_flags and its keywordFlags pass
\* verify_damage_types.
ScopeVerified(r) ==
    /\ r.flags # None => verify_weapon_flags(r.flags[1]).ok
    /\ r.keywordFlags # None => verify_damage_types(r.keywordFlags[1]).ok

\* C25: every scope value of the shipped registry data satisfies the invariants of the
\* checkers, in the map create_modifier_map returns and in the data as written: a
\* weapon-type flag comes with WEAPON, a damage-over-time flag with its base element.
C25_ScopeValuesVerified ==
    last.op = "create_modifier_map" =>
        /\ \A f \in DOMAIN names \ {"attributes"} :
               \A p \in DOMAIN names[f] : \A r \in RecordsOf(names[f][p]) : ScopeVerified(r)
        /\ \A c \in DOMAIN create_modifier_map_kwargs \ {"attributes"} :
               \A i \in DOMAIN create_modifier_map_kwargs[c] :
                   \A r \in RecordsOf(Given(c, create_modifier_map_kwargs[c][i][2])) :
                       ScopeVerified(r)

\* The entry add_pattern makes of a pattern text and a form, for the pairs tried and for
\* the shipped pairs.
EntryOf == [e \in PatternPool |-> [pattern |-> LuaToPython(e[1]), form |-> e[2]]]

ShippedEntries ==
    [k \in 1..Len(ShippedPatterns) |->
        [pattern |-> LuaToPython(ShippedPatterns[k][1]), form |-> ShippedPatterns[k][2]]]

\* C26: registration order is preserved.  A successful add_pattern puts its entry after
\* the entries already there and leaves those as they are, a failed one and a
\* parse_modifier call leave the list as it is, and create_modifier_manager registers the
\* shipped entries in the order written; so the list is the sequence of the entries
\* added, in call order, nothing reordered, merged or removed.
C26_RegistrationOrderKept ==
    [][/\ (last'.op = "add_pattern" /\ last'.ret.kind = "None") =>
              patterns' = Append(patterns, EntryOf[<<last'.pattern, last'.form>>])
       /\ (last'.op = "add_pattern" /\ last'.ret.kind = "Raised") => patterns' = patterns
       /\ last'.op \in {"parse_modifier", "DamageModifier"} => patterns' = patterns
       /\ (last'.op = "create_modifier_manager" /\ last'.ret.kind = "ModifierManager") =>
              patterns' = ShippedEntries
      ]_vars

\* Two different entries added one after the other, the later one last.
C26_Witness ==
    /\ last.op = "add_pattern" /\ last.ret.kind = "None"
    /\ Len(patterns) = 2 /\ patterns[1] # patterns[2]
    /\ patterns[2] = EntryOf[<<last.pattern, last.form>>]

\* A call of parse_modifier that returned a modifier: not None, and nothing raised.
Resolved(r) == r.kind \notin {"None", "Raised"}

\* C27: appending never overrides.  When parse_modifier returns a modifier for a text,
\* it returns an equal modifier for that text after an add_pattern call, whatever the
\* pattern and form added; so over any sequence of add_pattern calls a resolved result
\* stays as it is, and only a text without a result can gain one.
C27_AppendNeverOverrides ==
    [][last'.op = "add_pattern" =>
           \A text \in VariantTexts :
               Resolved(parse_modifier(patterns, text)) =>
                   parse_modifier(patterns', text) = parse_modifier(patterns, text)
      ]_vars

\* A second entry was added that matches a text the first entry already resolves, and
\* would build a different modifier from it.
C27_Witness ==
    /\ last.op = "add_pattern" /\ last.ret.kind = "None" /\ Len(patterns) = 2
    /\ \E text \in VariantTexts :
           /\ Truthy(match(patterns[1], text)) /\ Truthy(match(patterns[2], text))
           /\ Resolved(ParseFrom(patterns, 1, text))
           /\ Resolved(ParseFrom(patterns, 2, text))
           /\ ParseFrom(patterns, 2, text) # ParseFrom(patterns, 1, text)
           /\ parse_modifier(patterns, text) = ParseFrom(patterns, 1, text)

\* One scan of a pattern from the left: at a '%' that begins a legacy token the token's
\* target form is emitted and the scan goes on after the token; any other character is
\* emitted as it is.
RECURSIVE ScanFrom(_, _)
ScanFrom(v, i) ==
    IF i > Len(v) THEN ""
    ELSE IF i < Len(v) /\ SubSeq(v, i, i + 1) \in LuaTokens
         THEN TokenTarget(SubSeq(v, i, i + 1)) \o ScanFrom(v, i + 2)
         ELSE SubSeq(v, i, i) \o ScanFrom(v, i + 1)

\* The same eight rewrite rules with the rule for the escaped percent applied first.
EscapeRuleFirst(v) ==
    Replace(Replace(Replace(Replace(Replace(Replace(Replace(Replace(v,
        "%%", "%"),
        "%d", "\\d"),
        "%a", "[a-zA-Z]"),
        "%+", "\\+"),
        "%-", "\\-"),
        "%.", "\\."),
        "%?", "\\?"),
        "%s", "\\s")

\* C28: the stored pattern is what one left-to-right scan of the pattern given yields,
\* each token replaced where it stands, and it is the same when the rewrite rules are
\* applied in another order.
C28_SinglePassTranslation ==
    (last.op = "ModifierPattern" /\ last.ret.kind = "ModifierPattern") =>
        /\ last.ret.pattern = ScanFrom(last.pattern, 1)
        /\ last.ret.pattern = EscapeRuleFirst(last.pattern)

\* C29: WEAPON_MASK is the weapon cluster.  flags & WEAPON_MASK is what flags & (the
\* union of the ten weapon-type flags and the four weapon-class flags) is, so it is not 0
\* for a flag set that carries any of them, and it never carries a flag outside the
\* cluster.
C29_WeaponMaskCoversCluster ==
    last.op = "WEAPON_MASK" =>
        /\ last.ret = BitAnd(last.flags, weapon_type_flags + weapon_class_flags)
        /\ BitAnd(last.flags, weapon_type_flags + weapon_class_flags) # 0 => last.ret # 0
        /\ BitClear(last.ret, weapon_type_flags + weapon_class_flags) = 0

\* A colour value in the format validate_color_codes enforces.
WellFormedColour(c) ==
    /\ StartsWith(c, "^x") /\ Len(c) = 8
    /\ \A i \in 3..8 : IsHex(Ch(c, i))

\* C30: the colour table keeps its format.  After construction and after every
\* update_color_code call each stored colour value is '^x' followed by exactly six
\* hexadecimal digits, and a call that raises leaves codes and rgb_highlight as they were.
C30_ColourFormatKept ==
    /\ [](\A code \in DOMAIN colors.codes : WellFormedColour(colors.codes[code]))
    /\ [][(last'.op = "update_color_code" /\ last'.ret.kind = "Raised") =>
              colors' = colors]_vars

=============================================================================
